---- MODULE Spec2Model ----
(***************************************************************************)
(* A model of the RedisPy server: the keyspace with its expiry table       *)
(* (server.py: data_store, expiry_store and their two locks), the command  *)
(* handlers that run on one thread per connection (SET, GET, KEYS), the    *)
(* active expiration thread, the snapshot load at startup (rdbparser.py),  *)
(* and the RESP frame decoder (resp.py).                                   *)
(*                                                                         *)
(* Every step of a handler that touches shared state, or that waits for a  *)
(* lock, is one action: two threads interleave exactly at these points.    *)
(***************************************************************************)
EXTENDS Integers, Sequences, FiniteSets, TLC

\* ---------------------------------------------------------------- bounds
\* The wall clock int(time.time() * 1000) takes the values 0..MaxTime.
MaxTime == 2
\* Commands issued over all connections in one behaviour.
MaxCmds == 3
\* Frames in one stream fed to the decoder.
MaxFrames == 2
\* Calls of decode on one decoder.
MaxCalls == 8
\* Commands a client sends on one connection.
MaxRequests == 2

\* ------------------------------------------------------------- the domain
\* Client connections, one handle_client thread each (server.py:455).
Conns == {"c1", "c2"}
\* The active_expiration thread (server.py:441).
Expirer == "exp"
\* Keys are byte strings; one character per element.
Keys == {<<"a">>, <<"a", "b">>}
\* The key the concurrent connections of Spec contend on.
RaceKeys == {<<"a">>}
Values == {"v1", "v2"}
\* PX arguments of SET, in milliseconds.
TTLs == {1, 2}
\* The PX argument of the SETs the concurrent connections of Spec issue.
RaceTTLs == {1}
\* SET without PX (expiry_time = None, server.py:84).
NoPX == 0
\* data_store.get(key) of a missing key (None), the null bulk string on the wire.
Null == "nil"
\* A key with no entry in expiry_store.
NoExp == -1
\* A lock nobody holds.
Free == "free"
\* Glob patterns of KEYS.
Patterns == {<<"*">>, <<"a">>, <<"a", "?">>, <<"?">>, <<"a", "*">>, <<"b", "*">>}

VARIABLES
  now,                \* the wall clock, in ms
  data_store,         \* server.py:12
  expiry_store,       \* server.py:13
  data_store_lock,    \* server.py:14, its holder
  expiry_store_lock,  \* server.py:15, its holder
  pc,                 \* where each connection's handler stands
  key,                \* the handler's local key
  value,              \* handle_set_command's local value
  expiry_time,        \* handle_set_command's local expiry_time (the PX argument)
  expiration,         \* handle_set_command's local expiration
  current_time,       \* handle_get_command's local current_time
  pattern,            \* handle_keys_command's local pattern
  sent,               \* the last response written, and the connection it was written on
  epc,                \* where the active_expiration thread stands
  exp_time,           \* active_expiration's local current_time
  keys_to_check,      \* active_expiration's sample, the part not yet visited
  exp_key,            \* active_expiration's loop variable
  phase,              \* "load" while main() parses the snapshot, then "run"
  file,               \* the records of the snapshot not yet loaded
  ncmds,              \* commands issued so far
  \* History variables: they record what happened and decide nothing.
  set_at,             \* the clock when the connection's SET with PX sampled it
  last_set,           \* per key, the SET that stored its value, if nothing evicted it since
  acked,              \* per key, the last acknowledged SET, if no SET wrote the key since
  conc,               \* per key, the values of concurrent SETs without PX, once acknowledged
  get_after,          \* the connection's GET was issued after both concurrent SETs were acknowledged
  set_alone,          \* no other connection's SET of the same key has overlapped the connection's SET
  \* One RESPDecoder and the peer that feeds it.
  stream,             \* the bytes the peer has not sent yet
  whole,              \* the whole stream the peer sends
  buffer,             \* RESPDecoder.buffer (resp.py:49)
  calls,              \* calls of decode so far
  outcome,            \* what the last call of decode returned or raised
  decoded,            \* the frames the calls of decode have returned, in order
  frame,              \* the value the peer encoded to make the stream, if it did
  \* One connection seen from its bytes: the client and handle_client's loop.
  requests,           \* the commands the client sends, in order
  inbox,              \* the bytes the client has sent, not yet returned by recv
  written,            \* the responses handle_client has written, in order
  connected,          \* handle_client's loop is running
  \* The snapshot file, byte by byte: write_rdb, the file, parse_rdb.
  rdb,                \* "none": no file at rdb_path; "save", "file", "parsed"
  snap_data,          \* the data_store write_rdb is given, a dict
  snap_expiry,        \* the expiry_store write_rdb is given, a dict
  disk,               \* the bytes of the file at rdb_path
  rdb_data_store,     \* the data_store parse_rdb fills (server.py:437), a dict
  rdb_expiry_store,   \* the expiry_store parse_rdb fills, a dict
  rdb_error,          \* the exception parse_rdb caught and printed, "" if none
  saving,             \* per connection, write_rdb's file object and loop in a SAVE
  \* The configuration.
  config,             \* server.py:18, a dict from option names to values
  \* Replication: the primary's PSYNC handler and the replica's handshake thread.
  psync_out,          \* per connection, the bytes of each sendall of handle_psync_command
  hs_pc,              \* where replica_handshake stands
  hs_sent,            \* the requests replica_handshake has sent, in order
  hs_got,             \* what each recv of replica_handshake returned, in order
  hs_link,            \* the connection to the master, as the replica's socket has it
  \* One length, written by save_rdb.py and read by rdbparser.py.
  size_in,            \* the integer encode_length_for_write is given
  size_bytes,         \* the bytes read_length reads from
  size_read,          \* what read_length returned or raised, and the bytes it left
  \* The master a replica's handshake thread talks to: another process.
  master,             \* its config, data_store and expiry_store
  outbox              \* the bytes its handle_client has sent, not yet returned by the replica's recv

store_vars == <<data_store, expiry_store>>
lock_vars == <<data_store_lock, expiry_store_lock>>
local_vars == <<key, value, expiry_time, expiration, current_time, pattern, set_at,
                get_after, set_alone>>
exp_vars == <<epc, exp_time, keys_to_check, exp_key>>
load_vars == <<phase, file>>
hist_vars == <<last_set, acked, conc>>
codec_vars == <<stream, whole, buffer, calls, outcome, decoded, frame>>
wire_vars == <<requests, inbox, written, connected>>
snap_vars == <<rdb, snap_data, snap_expiry, disk, rdb_data_store, rdb_expiry_store, rdb_error,
               saving>>
conf_vars == <<config>>
hs_vars == <<hs_pc, hs_sent, hs_got, hs_link>>
repl_vars == <<psync_out, hs_vars>>
len_vars == <<size_in, size_bytes, size_read>>
link_vars == <<master, outbox>>
other_vars == <<codec_vars, wire_vars, snap_vars, conf_vars, repl_vars, len_vars, link_vars>>
server_vars == <<now, store_vars, lock_vars, pc, local_vars, sent, exp_vars, load_vars,
                 ncmds, hist_vars>>

vars == <<server_vars, codec_vars, wire_vars, snap_vars, conf_vars, repl_vars, len_vars, link_vars>>

\* ------------------------------------------------------------- helpers
\* dict.pop(key, None)
Pop(store, k, absent) == [store EXCEPT ![k] = absent]

\* A test that takes every key with an expiry for expired.
ExpiredAtAnyTime(k, t) == expiry_store[k] # NoExp

\* key in expiry_store and expiry_store[key] <= current_time (server.py:45, 124)
Expired(k, t) == expiry_store[k] # NoExp /\ expiry_store[k] <= t

\* The records a snapshot file holds: key, value, expire timestamp (or NoExp).
RaceFiles ==
  { <<>>,
    << [key |-> <<"a">>, value |-> "v1", expire |-> 1] >> }

Files ==
  RaceFiles \cup
  { << [key |-> <<"a">>, value |-> "v1", expire |-> NoExp],
       [key |-> <<"a", "b">>, value |-> "v2", expire |-> 2] >> }

\* A response written on connection c: a simple string (+OK), a bulk string
\* (Null for the null bulk string $-1) or an array of bulk strings.
Response(c, kind, val) == [conn |-> c, kind |-> kind, val |-> val]

\* No response written yet.
NoReply == Response("none", "none", Null)

\* The empty records of the history variables.
NoSet == [val |-> Null, px |-> NoPX, at |-> 0]
NoAck == [conn |-> "none", val |-> Null, due |-> NoExp, alone |-> FALSE, next |-> FALSE]
NoConc == [n |-> 0, vals |-> {}]

\* The places of handle_set_command.
SetPcs == {"set_install", "set_chk", "set_pop", "set_store", "set_reply"}

\* Connection c is inside a SET of key k.
InSet(c, k) == pc[c] \in SetPcs /\ key[c] = k

\* ------------------------------------------------------------- RESP decoder
\* A byte is an integer, a bytes object a sequence of them; a str is a sequence
\* of one-character strings. chr is Python's chr on the bytes the model uses.
chr ==
  (10 :> "\n") @@ (13 :> "\r") @@ (32 :> " ") @@ (36 :> "$") @@ (42 :> "*") @@
  (43 :> "+") @@ (45 :> "-") @@ (48 :> "0") @@ (49 :> "1") @@ (50 :> "2") @@
  (51 :> "3") @@ (52 :> "4") @@ (53 :> "5") @@ (54 :> "6") @@ (55 :> "7") @@
  (56 :> "8") @@ (57 :> "9") @@ (58 :> ":") @@ (67 :> "C") @@ (69 :> "E") @@
  (71 :> "G") @@ (72 :> "H") @@ (73 :> "I") @@ (78 :> "N") @@ (79 :> "O") @@
  (80 :> "P") @@ (97 :> "a") @@
  (0 :> "^@") @@ (1 :> "^A") @@ (2 :> "^B") @@ (3 :> "^C") @@ (4 :> "^D") @@
  (5 :> "^E") @@ (6 :> "^F") @@ (7 :> "^G") @@ (8 :> "^H") @@ (9 :> "\t") @@
  (46 :> ".") @@ (68 :> "D") @@ (82 :> "R") @@ (83 :> "S") @@ (98 :> "b") @@
  (100 :> "d") @@ (101 :> "e") @@ (105 :> "i") @@ (114 :> "r") @@ (115 :> "s") @@
  (118 :> "v") @@ (70 :> "F") @@ (76 :> "L") @@ (85 :> "U") @@ (89 :> "Y") @@
  (110 :> "n") @@ (111 :> "o") @@ (63 :> "?") @@ (99 :> "c") @@ (103 :> "g") @@
  (108 :> "l") @@ (112 :> "p") @@ (116 :> "t") @@ (121 :> "y") @@
  (75 :> "K") @@ (87 :> "W") @@ (102 :> "f") @@ (107 :> "k") @@ (109 :> "m") @@
  (117 :> "u") @@ (119 :> "w")

\* The inverse of chr.
ord(ch) == CHOOSE b \in DOMAIN chr : chr[b] = ch

\* bytes.decode() and str.encode(), on ASCII.
bytes_decode(b) == [i \in 1..Len(b) |-> chr[b[i]]]
str_encode(s) == [i \in 1..Len(s) |-> ord(s[i])]

\* The prefix bytes of the frame types (constants.py:7-11), as chr gives them.
ARRAY == "*"
BULK_STRING == "$"
SIMPLE_STRING == "+"
SIMPLE_ERROR == "-"
INTEGER == ":"
\* b"\r\n" (constants.py:25), which resp.py reads as DataType.TERMINATOR.
TERMINATOR == <<13, 10>>

\* Python values: None, a str, an int, a list, and the dict {"error": line}.
None == [t |-> "None", v |-> <<>>]
Str(s) == [t |-> "str", v |-> s]
IntVal(n) == [t |-> "int", v |-> n]
List(l) == [t |-> "list", v |-> l]
ErrorDict(line) == [t |-> "dict", v |-> line]

\* b[start:stop] of Python, with its treatment of negative and large indices.
Clamp(i, n) == IF i < 0 THEN (IF n + i < 0 THEN 0 ELSE n + i) ELSE IF i > n THEN n ELSE i
Slice(b, start, stop) == SubSeq(b, Clamp(start, Len(b)) + 1, Clamp(stop, Len(b)))

\* bytes.find(sub): the index of the first occurrence of sub, or -1.
find(b, sub) ==
  LET at == {i \in 0..(Len(b) - Len(sub)) : SubSeq(b, i + 1, i + Len(sub)) = sub}
  IN IF at = {} THEN -1 ELSE CHOOSE i \in at : \A j \in at : i <= j

\* int(s): optional surrounding whitespace, an optional sign, decimal digits;
\* anything else raises ValueError.
Whitespace == {" ", "\r", "\n", "\t"}
digit ==
  ("0" :> 0) @@ ("1" :> 1) @@ ("2" :> 2) @@ ("3" :> 3) @@ ("4" :> 4) @@
  ("5" :> 5) @@ ("6" :> 6) @@ ("7" :> 7) @@ ("8" :> 8) @@ ("9" :> 9)

RECURSIVE lstrip(_)
lstrip(s) == IF s # <<>> /\ Head(s) \in Whitespace THEN lstrip(Tail(s)) ELSE s

RECURSIVE rstrip(_)
rstrip(s) ==
  IF s # <<>> /\ s[Len(s)] \in Whitespace THEN rstrip(SubSeq(s, 1, Len(s) - 1)) ELSE s

Unsigned(s) ==
  LET body == rstrip(lstrip(s))
  IN IF body # <<>> /\ Head(body) \in {"+", "-"} THEN Tail(body) ELSE body

int_raises(s) ==
  LET digits == Unsigned(s)
  IN digits = <<>> \/ \E i \in 1..Len(digits) : digits[i] \notin DOMAIN digit

RECURSIVE Decimal(_)
Decimal(digits) ==
  IF digits = <<>> THEN 0
  ELSE 10 * Decimal(SubSeq(digits, 1, Len(digits) - 1)) + digit[digits[Len(digits)]]

int(s) ==
  LET body == rstrip(lstrip(s))
  IN IF body # <<>> /\ Head(body) = "-" THEN 0 - Decimal(Unsigned(s))
                                         ELSE Decimal(Unsigned(s))

\* str.split(): the maximal runs of non-whitespace characters.
RECURSIVE split(_)
split(s) ==
  LET t == lstrip(s)
      ends == {i \in 1..Len(t) : t[i] \in Whitespace}
      n == IF ends = {} THEN Len(t) ELSE (CHOOSE i \in ends : \A j \in ends : i <= j) - 1
  IN IF t = <<>> THEN <<>>
     ELSE <<Str(SubSeq(t, 1, n))>> \o split(SubSeq(t, n + 1, Len(t)))

\* What a method of the decoder does: it returns ret, or raises, and leaves
\* self.buffer as buf.
Return_(ret, buf) == [ret |-> ret, raised |-> "", buffer |-> buf]
Raise(exc, buf) == [ret |-> None, raised |-> exc, buffer |-> buf]

\* resp.py:74-80: the line up to the first terminator, which the buffer loses.
read_line(buf) ==
  LET newline_index == find(buf, TERMINATOR)
  IN IF newline_index = -1
       THEN [line |-> None, buffer |-> buf]
       ELSE [line |-> Str(bytes_decode(Slice(buf, 0, newline_index))),
             buffer |-> Slice(buf, newline_index + Len(TERMINATOR), Len(buf))]

\* resp.py:82-84
decode_simple_string(buf) ==
  LET r == read_line(buf) IN Return_(r.line, r.buffer)

\* resp.py:86-88
decode_error(buf) ==
  LET r == read_line(buf) IN Return_(ErrorDict(r.line), r.buffer)

\* resp.py:90-97
decode_integer(buf) ==
  LET r == read_line(buf)
  IN IF r.line = None THEN Return_(None, r.buffer)
     ELSE IF int_raises(r.line.v) THEN Return_(None, r.buffer)
     ELSE Return_(IntVal(int(r.line.v)), r.buffer)

\* resp.py:99-110
decode_bulk_string(buf) ==
  LET r == read_line(buf)
  IN IF r.line = None THEN Return_(None, r.buffer)
     ELSE IF int_raises(r.line.v) THEN Raise("ValueError", r.buffer)
     ELSE LET length == int(r.line.v)
          IN IF length = -1 THEN Return_(None, r.buffer)
             ELSE IF Len(r.buffer) < length + Len(TERMINATOR) THEN Return_(None, r.buffer)
             ELSE Return_(Str(bytes_decode(Slice(r.buffer, 0, length))),
                          Slice(r.buffer, length + Len(TERMINATOR), Len(r.buffer)))

\* resp.py:112-151. decode_elements is the for loop of lines 120-150: num are
\* the elements still to read.
RECURSIVE decode_array(_), decode_elements(_, _, _, _)
decode_array(buf) ==
  LET r == read_line(buf)
  IN IF r.line = None THEN Return_(None, r.buffer)
     ELSE IF int_raises(r.line.v) THEN Raise("ValueError", r.buffer)
     ELSE LET num_elements == int(r.line.v)
          IN IF num_elements = -1 THEN Return_(None, r.buffer)
             ELSE decode_elements(r.line, num_elements, <<>>, r.buffer)

decode_elements(line, num, elements, buf) ==
  IF num <= 0 THEN Return_(List(elements), buf)
  ELSE IF buf = <<>> THEN Return_(None, buf)
  ELSE
    LET prefix == chr[buf[1]]
        elem == CASE prefix = BULK_STRING -> decode_bulk_string(buf)
                  [] prefix = SIMPLE_STRING -> decode_simple_string(buf)
                  [] prefix = SIMPLE_ERROR -> decode_error(buf)
                  [] prefix = INTEGER -> decode_integer(buf)
                  [] prefix = ARRAY -> decode_array(buf)
                  [] OTHER -> Raise("ValueError", buf)
    IN IF elem.raised # "" THEN elem
       ELSE IF elem.ret = None /\ (prefix # BULK_STRING \/ line # Str(<<"-", "1">>))
         THEN Return_(None, elem.buffer)
       ELSE decode_elements(line, num - 1, Append(elements, elem.ret), elem.buffer)

\* resp.py:153-164
decode_inline(buf) ==
  LET r == read_line(buf)
  IN IF r.line = None THEN Return_(None, r.buffer)
     ELSE IF r.line.v = <<>> THEN Return_(None, r.buffer)
     ELSE Return_(List(split(r.line.v)), r.buffer)

\* resp.py:54-72
decode(buf) ==
  IF buf = <<>> THEN Return_(None, buf)
  ELSE LET prefix == chr[buf[1]]
       IN CASE prefix = ARRAY -> decode_array(buf)
            [] prefix = BULK_STRING -> decode_bulk_string(buf)
            [] prefix = SIMPLE_STRING -> decode_simple_string(buf)
            [] prefix = SIMPLE_ERROR -> decode_error(buf)
            [] prefix = INTEGER -> decode_integer(buf)
            [] OTHER -> decode_inline(buf)

\* The frames of the streams: a bulk string, the empty and the null bulk
\* string, an integer, a simple string, an error, and arrays of them, one empty
\* and one nested.
Frames ==
  { str_encode(<<"$", "1", "\r", "\n", "a", "\r", "\n">>),
    str_encode(<<"$", "0", "\r", "\n", "\r", "\n">>),
    str_encode(<<"$", "-", "1", "\r", "\n">>),
    str_encode(<<":", "1", "\r", "\n">>),
    str_encode(<<"+", "a", "\r", "\n">>),
    str_encode(<<"-", "a", "\r", "\n">>),
    str_encode(<<"*", "0", "\r", "\n">>),
    str_encode(<<"*", "2", "\r", "\n", "$", "1", "\r", "\n", "a", "\r", "\n",
                 ":", "1", "\r", "\n">>),
    str_encode(<<"*", "1", "\r", "\n", "*", "1", "\r", "\n", ":", "2", "\r", "\n">>) }

\* The concatenations of one to n frames.
RECURSIVE StreamsOf(_)
StreamsOf(n) ==
  IF n = 0 THEN {<<>>}
  ELSE LET shorter == StreamsOf(n - 1)
       IN shorter \cup {s \o f : s \in shorter, f \in Frames}

Streams == StreamsOf(MaxFrames) \ {<<>>}

\* No call of decode yet.
NoOutcome == [ret |-> None, raised |-> "", frame |-> FALSE]

\* ------------------------------------------------------------- Init
\* ------------------------------------------------------------- RESP encoder
\* b"$-1\r\n" (constants.py:24), which resp.py reads as DataType.NULL_BULK_STRING.
NULL_BULK_STRING == str_encode(<<"$", "-", "1", "\r", "\n">>)

\* str(n) of an int: its decimal digits, after a minus sign when negative.
RECURSIVE Digits(_)
Digits(n) ==
  LET last == CHOOSE ch \in DOMAIN digit : digit[ch] = n % 10
  IN IF n < 10 THEN <<last>> ELSE Append(Digits(n \div 10), last)

str(n) == IF n < 0 THEN <<"-">> \o Digits(0 - n) ELSE Digits(n)

\* resp.py:14-16
encode_integer(val) ==
  str_encode(<<INTEGER>> \o str(val) \o bytes_decode(TERMINATOR))

\* resp.py:18-23
encode_bulk_string(s) ==
  IF s = None THEN NULL_BULK_STRING
  ELSE LET encoded == str_encode(s.v)
       IN str_encode(<<BULK_STRING>> \o str(Len(encoded)) \o bytes_decode(TERMINATOR))
            \o encoded \o TERMINATOR

\* resp.py:25-45: encode, and encode_array with the join of its elements.
RECURSIVE encode(_), join_encoded(_)
encode(data) ==
  CASE data.t = "str" -> encode_bulk_string(data)
    [] data.t = "int" -> encode_integer(data.v)
    [] data.t = "list" ->
         str_encode(<<ARRAY>> \o str(Len(data.v)) \o bytes_decode(TERMINATOR))
           \o join_encoded(data.v)
    [] data.t = "None" -> encode_bulk_string(None)

join_encoded(arr) ==
  IF arr = <<>> THEN <<>> ELSE encode(Head(arr)) \o join_encoded(Tail(arr))

\* The frames that are encoded and decoded again: bulk strings, the null bulk
\* string, integers, and arrays of them: empty, with a null element, nested.
Representable ==
  { Str(<<"a">>), Str(<<>>), None, IntVal(0), IntVal(12), IntVal(-1),
    List(<<>>), List(<<Str(<<"a">>), IntVal(1)>>), List(<<None>>),
    List(<<Str(<<"a">>), None>>), List(<<List(<<IntVal(2)>>)>>),
    List(<<List(<<>>), Str(<<"a", "a">>)>>) }

\* The peer encodes one frame and sends it to a decoder just made.
RoundTripInit ==
  /\ frame \in Representable
  /\ whole = encode(frame)
  /\ stream = whole
  /\ buffer = <<>>
  /\ calls = 0
  /\ outcome = NoOutcome
  /\ decoded = <<>>

\* ------------------------------------------------------------- the wire
\* str.split(sep): the pieces between the occurrences of sep.
RECURSIVE split_at(_, _)
split_at(s, sep) ==
  LET at == {i \in 0..(Len(s) - Len(sep)) : SubSeq(s, i + 1, i + Len(sep)) = sep}
      first == CHOOSE i \in at : \A j \in at : i <= j
  IN IF at = {} THEN <<s>>
     ELSE <<SubSeq(s, 1, first)>> \o split_at(SubSeq(s, first + Len(sep) + 1, Len(s)), sep)

\* What parse_redis_protocol does: it returns None, or args, or raises.
Parsed(args) == [raised |-> "", none |-> FALSE, args |-> args]
ParsedNone == [raised |-> "", none |-> TRUE, args |-> <<>>]
ParseRaises(exc) == [raised |-> exc, none |-> FALSE, args |-> <<>>]

\* server.py:66-74: the while loop, with args and idx as they stand.
RECURSIVE parse_args(_, _, _, _)
parse_args(lines, num_args, args, idx) ==
  IF ~(Len(args) < num_args) THEN Parsed(args)
  ELSE IF idx + 1 > Len(lines) \/ lines[idx + 1] = <<>> THEN ParseRaises("IndexError")
  ELSE IF lines[idx + 1][1] = "$"
    THEN IF idx + 2 > Len(lines) THEN ParseRaises("IndexError")
         ELSE parse_args(lines, num_args, Append(args, lines[idx + 2]), idx + 2)
  ELSE parse_args(lines, num_args, args, idx + 1)

\* server.py:55-74. lines[i] of the code is lines[i + 1] here.
parse_redis_protocol(data) ==
  LET lines == split_at(data, <<"\r", "\n">>)
  IN IF lines[1] = <<>> THEN ParseRaises("IndexError")
     ELSE IF lines[1][1] # "*" THEN ParsedNone
     ELSE IF int_raises(Tail(lines[1])) THEN ParseRaises("ValueError")
     ELSE parse_args(lines, int(Tail(lines[1])), <<>>, 1)

\* str.upper(), on the characters of the model.
Upper ==
  ("a" :> "A") @@ ("b" :> "B") @@ ("d" :> "D") @@ ("e" :> "E") @@ ("i" :> "I") @@
  ("r" :> "R") @@ ("s" :> "S") @@ ("v" :> "V") @@ ("g" :> "G") @@ ("p" :> "P") @@
  ("t" :> "T") @@ ("x" :> "X") @@ ("q" :> "Q") @@ ("u" :> "U") @@ ("n" :> "N") @@
  ("c" :> "C") @@ ("f" :> "F") @@ ("k" :> "K") @@ ("l" :> "L") @@ ("m" :> "M") @@
  ("o" :> "O") @@ ("w" :> "W") @@ ("y" :> "Y")
upper(s) == [i \in 1..Len(s) |-> IF s[i] \in DOMAIN Upper THEN Upper[s[i]] ELSE s[i]]

\* A response on the wire: +text, -ERR text, or the bulk string of text.
Simple(text) == [kind |-> "simple", val |-> text]
Error(text) == [kind |-> "error", val |-> text]
Bulk(text) == [kind |-> "bulk", val |-> text]

\* recv(1024) returns at most this many bytes (server.py:351).
RecvSize == 1024

\* The commands handle_client answers itself (server.py:365-369, 386-390);
\* a command with a handler of its own is not one of them.
Handled ==
  { <<"S", "E", "T">>, <<"G", "E", "T">>, <<"C", "O", "N", "F", "I", "G">>,
    <<"S", "A", "V", "E">>, <<"K", "E", "Y", "S">>, <<"I", "N", "F", "O">>,
    <<"R", "E", "P", "L", "C", "O", "N", "F">>, <<"P", "S", "Y", "N", "C">> }

\* The commands the client sends, and the bytes of a sequence of them.
Commands == { <<Str(<<"P", "I", "N", "G">>)>>,
              <<Str(<<"E", "C", "H", "O">>), Str(<<"a">>)>> }

RECURSIVE CommandSeqs(_)
CommandSeqs(n) ==
  IF n = 0 THEN {<<>>}
  ELSE LET shorter == CommandSeqs(n - 1)
       IN shorter \cup {Append(q, c) : q \in shorter, c \in Commands}

RECURSIVE Wire(_)
Wire(cmds) == IF cmds = <<>> THEN <<>> ELSE encode(List(Head(cmds))) \o Wire(Tail(cmds))

\* A client connects and sends its commands (server.py:451-455).
WireInit(seqs) ==
  /\ requests \in seqs
  /\ inbox = Wire(requests)
  /\ written = <<>>
  /\ connected = TRUE

\* ------------------------------------------------------------- snapshot writer
\* A dict is the sequence of its items in insertion order, the order items()
\* walks; a set value carries its members in the order iteration visits them.
Item(k, v) == [key |-> k, val |-> v]
SetOf(members) == [t |-> "set", v |-> members]
dict_keys(d) == {d[i].key : i \in 1..Len(d)}
dict_get(d, k) == d[CHOOSE i \in 1..Len(d) : d[i].key = k].val
dict_set(d, k, v) ==
  IF k \in dict_keys(d)
    THEN [i \in 1..Len(d) |-> IF d[i].key = k THEN Item(k, v) ELSE d[i]]
    ELSE Append(d, Item(k, v))

\* struct.pack('<Q', n) for w = 8, and struct.pack('>I', n) for w = 4.
RECURSIVE pack_le(_, _)
pack_le(n, w) == IF w = 0 THEN <<>> ELSE <<n % 256>> \o pack_le(n \div 256, w - 1)
RECURSIVE pack_be(_, _)
pack_be(n, w) == IF w = 0 THEN <<>> ELSE Append(pack_be(n \div 256, w - 1), n % 256)

\* A writer that keeps the two-byte form up to 65535.
encode_length_for_write_two_bytes(length) ==
  IF length <= 63 THEN <<length>>
  ELSE IF length <= 65535 THEN <<64 + ((length \div 256) % 64), length % 256>>
  ELSE <<128>> \o pack_be(length, 4)

\* save_rdb.py:6-20
encode_length_for_write(length) ==
  IF length <= 63 THEN <<length>>
  ELSE IF length <= 16383 THEN <<64 + ((length \div 256) % 64), length % 256>>
  ELSE <<128>> \o pack_be(length, 4)

\* save_rdb.py:22-28
encode_string_for_write(s) ==
  LET s_bytes == str_encode(s)
  IN encode_length_for_write(Len(s_bytes)) \o s_bytes

\* save_rdb.py:30-34
encode_expire_ms_for_write(timestamp_ms) == <<252>> \o pack_le(timestamp_ms, 8)

\* for item in lst: encoded += encode_string_for_write(item) (save_rdb.py:50-51, 64-65)
RECURSIVE encode_members(_)
encode_members(items) ==
  IF items = <<>> THEN <<>>
  ELSE encode_string_for_write(Head(items).v) \o encode_members(Tail(items))

\* save_rdb.py:42-52
encode_list_for_write(lst) == encode_length_for_write(Len(lst)) \o encode_members(lst)

\* save_rdb.py:54-66: a value type flag of its own, then the size and the members.
encode_set_for_write(s) == <<2>> \o encode_length_for_write(Len(s)) \o encode_members(s)

\* The 'crc-64' of crcmod (crc.py:4): polynomial x^64 + x^4 + x^3 + x + 1, bits
\* reflected, initial value 0, no final xor. A 64-bit word is the tuple of its
\* 8 bytes, the least significant first.
Zero64 == <<0, 0, 0, 0, 0, 0, 0, 0>>
\* The top byte of the reflected polynomial 0xD800000000000000.
Poly64 == 216
Toggle(x, k) == IF (x \div (2 ^ k)) % 2 = 1 THEN x - (2 ^ k) ELSE x + (2 ^ k)
RECURSIVE XorByte(_, _, _)
XorByte(x, b, k) ==
  IF k = 8 THEN x
  ELSE XorByte(IF (b \div (2 ^ k)) % 2 = 1 THEN Toggle(x, k) ELSE x, b, k + 1)
ShiftRight(c) ==
  << (c[1] \div 2) + 128 * (c[2] % 2), (c[2] \div 2) + 128 * (c[3] % 2),
     (c[3] \div 2) + 128 * (c[4] % 2), (c[4] \div 2) + 128 * (c[5] % 2),
     (c[5] \div 2) + 128 * (c[6] % 2), (c[6] \div 2) + 128 * (c[7] % 2),
     (c[7] \div 2) + 128 * (c[8] % 2), c[8] \div 2 >>
crc_bit(c) ==
  IF c[1] % 2 = 1
    THEN [ShiftRight(c) EXCEPT ![8] = XorByte(c[8] \div 2, Poly64, 0)]
    ELSE ShiftRight(c)
crc_byte(c, b) ==
  crc_bit(crc_bit(crc_bit(crc_bit(crc_bit(crc_bit(crc_bit(crc_bit(
    [c EXCEPT ![1] = XorByte(c[1], b, 0)]))))))))
\* crc64(data, crc) of crcmod; the test of the length makes the word of each
\* byte be computed before the next byte is taken.
RECURSIVE crc64(_, _)
crc64(data, crc) ==
  IF data = <<>> THEN crc
  ELSE LET next == crc_byte(crc, Head(data))
       IN IF Len(next) = 8 THEN crc64(Tail(data), next) ELSE next

\* struct.pack('>Q', checksum) (crc.py:48): the most significant byte first.
pack_checksum(c) == [j \in 1..8 |-> c[9 - j]]

\* crc.py:36-42
calculate_crc64(file_content) == crc64(file_content, Zero64)

\* crc.py:44-49: the file with the checksum of its content appended.
append_crc64(file_content) == file_content \o pack_checksum(calculate_crc64(file_content))

\* What write_rdb leaves: the bytes of the file, and the exception it raised.
Written(bytes, exc) == [bytes |-> bytes, raised |-> exc]

\* save_rdb.py:113-130: the type, the key and the value of one item; nothing for
\* a value that is no str, list or set.
value_record(k, val) ==
  IF val.t = "str"
    THEN <<0>> \o encode_string_for_write(k) \o encode_string_for_write(val.v)
  ELSE IF val.t = "list"
    THEN <<1>> \o encode_string_for_write(k) \o encode_list_for_write(val.v)
  ELSE IF val.t = "set"
    THEN <<2>> \o encode_string_for_write(k) \o encode_set_for_write(val.v)
  ELSE <<>>

\* save_rdb.py:104-130, the records of the items from the i-th on; struct.pack
\* refuses a negative timestamp.
RECURSIVE write_items(_, _, _, _)
write_items(items, expiry, i, out) ==
  IF i > Len(items) THEN Written(out, "")
  ELSE IF items[i].key \notin dict_keys(expiry)
    THEN write_items(items, expiry, i + 1,
                     out \o value_record(items[i].key, items[i].val))
  ELSE IF dict_get(expiry, items[i].key) < 0 THEN Written(out, "struct.error")
  ELSE write_items(items, expiry, i + 1,
                   out \o encode_expire_ms_for_write(dict_get(expiry, items[i].key))
                       \o value_record(items[i].key, items[i].val))

\* b'REDIS0011' (save_rdb.py:77)
Header == <<82, 69, 68, 73, 83, 48, 48, 49, 49>>

\* save_rdb.py:76-101: the header, the redis-ver metadata, database 0 and the
\* sizes of the two tables.
Preamble(data, expiry) ==
  Header \o <<250>>
    \o encode_string_for_write(<<"r", "e", "d", "i", "s", "-", "v", "e", "r">>)
    \o encode_string_for_write(<<"6", ".", "0", ".", "1", "6">>)
    \o <<254>> \o encode_length_for_write(0)
    \o <<251>> \o encode_length_for_write(Len(data))
    \o encode_length_for_write(Len(expiry))

\* save_rdb.py:68-142: open(filename, 'wb') empties the file, the sections are
\* written, then append_crc64 adds the checksum; an exception leaves what was
\* written so far.
write_rdb(data, expiry) ==
  LET items == write_items(data, expiry, 1, Preamble(data, expiry))
  IN IF items.raised # "" THEN items
     ELSE Written(append_crc64(items.bytes \o <<255>>), "")

\* The decoder as RESPDecoder() leaves it (resp.py:48-49), and the peer with
\* the stream it will send.
CodecInit(streams) ==
  /\ whole \in streams
  /\ stream = whole
  /\ buffer = <<>>
  /\ calls = 0
  /\ outcome = NoOutcome
  /\ decoded = <<>>
  /\ frame = None

\* server.py:12-16 and the threads' locals: both stores empty over the keys
\* the run uses, the locks free, the snapshot file not yet read, and the
\* number of commands the connections have sent.
ServerInitOver(keys, files, commands) ==
  /\ now = 0
  /\ data_store = [k \in keys |-> Null]
  /\ expiry_store = [k \in keys |-> NoExp]
  /\ data_store_lock = Free
  /\ expiry_store_lock = Free
  /\ pc = [c \in Conns |-> "idle"]
  /\ key = [c \in Conns |-> <<>>]
  /\ value = [c \in Conns |-> Null]
  /\ expiry_time = [c \in Conns |-> NoPX]
  /\ expiration = [c \in Conns |-> NoExp]
  /\ current_time = [c \in Conns |-> 0]
  /\ pattern = [c \in Conns |-> <<>>]
  /\ sent = NoReply
  /\ epc = "sleep"
  /\ exp_time = 0
  /\ keys_to_check = {}
  /\ exp_key = <<>>
  /\ phase = "load"
  /\ file \in files
  /\ ncmds = commands
  /\ set_at = [c \in Conns |-> 0]
  /\ last_set = [k \in keys |-> NoSet]
  /\ acked = [k \in keys |-> NoAck]
  /\ conc = [k \in keys |-> NoConc]
  /\ get_after = [c \in Conns |-> FALSE]
  /\ set_alone = [c \in Conns |-> FALSE]

ServerInit(files) == ServerInitOver(Keys, files, 0)

\* A connection that is not in write_rdb: nothing buffered, no item to visit.
NotSaving == [buf |-> <<>>, items |-> <<>>, found |-> FALSE]

\* No file at rdb_path (server.py:436): nothing is written or parsed.
NoSnapshot ==
  /\ rdb = "none"
  /\ snap_data = <<>>
  /\ snap_expiry = <<>>
  /\ disk = <<>>
  /\ rdb_data_store = <<>>
  /\ rdb_expiry_store = <<>>
  /\ rdb_error = ""
  /\ saving = [c \in Conns |-> NotSaving]

\* ------------------------------------------------------------- configuration
\* server.py:18-26: config as the module defines it.
config_defaults ==
  << Item(<<"d", "i", "r">>, Str(<<"/", "t", "m", "p", "/", "r", "e", "d", "i", "s", "-", "d", "a", "t", "a">>)),
     Item(<<"d", "b", "f", "i", "l", "e", "n", "a", "m", "e">>, Str(<<"d", "u", "m", "p", ".", "r", "d", "b">>)),
     Item(<<"r", "o", "l", "e">>, Str(<<"m", "a", "s", "t", "e", "r">>)),
     Item(<<"m", "a", "s", "t", "e", "r", "_", "h", "o", "s", "t">>, None),
     Item(<<"m", "a", "s", "t", "e", "r", "_", "p", "o", "r", "t">>, None),
     Item(<<"m", "a", "s", "t", "e", "r", "_", "r", "e", "p", "l", "i", "d">>, None),
     Item(<<"m", "a", "s", "t", "e", "r", "_", "r", "e", "p", "l", "_", "o", "f", "f", "s", "e", "t">>, IntVal(0)) >>

\* utils.py: random_id(n) is an identifier of n alphanumeric characters, drawn
\* at random; these are the identifiers it draws here.
random_id(n) == {[i \in 1..n |-> ch] : ch \in {"a", "1"}}

\* The command line as argparse reads it (server.py:406-412): the defaults of
\* --dir and --dbfilename, a port or the empty string, and --replicaof, absent
\* or "host port".
DefaultPort == <<"6", "3", "7", "9">>
ArgumentsOf(port, replicaof) ==
  [dir |-> <<"/", "t", "m", "p", "/", "r", "e", "d", "i", "s", "-", "d", "a", "t", "a">>, dbfilename |-> <<"d", "u", "m", "p", ".", "r", "d", "b">>,
   port |-> port, replicaof |-> replicaof]
NoReplicaof == None
Arguments ==
  {ArgumentsOf(port, replicaof) : port \in {DefaultPort, <<>>},
                                  replicaof \in {NoReplicaof, List(<<<<"a", " ", "1">>>>)}}

\* server.py:415-417: args.port or 6379 is the port when it is not empty.
configure(args) ==
  dict_set(dict_set(dict_set(config_defaults,
    <<"d", "i", "r">>, Str(args.dir)),
    <<"d", "b", "f", "i", "l", "e", "n", "a", "m", "e">>, Str(args.dbfilename)),
    <<"p", "o", "r", "t">>, IF args.port # <<>> THEN Str(args.port) ELSE IntVal(6379))

\* server.py:420-424: the replica's role and its master.
replica_of(conf, host_port) ==
  dict_set(dict_set(dict_set(conf,
    <<"r", "o", "l", "e">>, Str(<<"s", "l", "a", "v", "e">>)),
    <<"m", "a", "s", "t", "e", "r", "_", "h", "o", "s", "t">>, Str(host_port[1])),
    <<"m", "a", "s", "t", "e", "r", "_", "p", "o", "r", "t">>, Str(host_port[2]))

\* server.py:414-429: config once main has read the command line; replid is
\* what random_id(40) returns when it is called.
main(args, replid) ==
  IF args.replicaof # NoReplicaof
    THEN replica_of(configure(args), split_at(args.replicaof.v[1], <<" ">>))
    ELSE dict_set(dict_set(configure(args),
           <<"r", "o", "l", "e">>, Str(<<"m", "a", "s", "t", "e", "r">>)),
           <<"m", "a", "s", "t", "e", "r", "_", "r", "e", "p", "l", "i", "d">>, Str(replid))

\* The configurations main leaves.
Configs == {main(args, replid) : args \in Arguments, replid \in random_id(40)}

\* The server started without arguments.
NoArguments ==
  config = main(ArgumentsOf(DefaultPort, NoReplicaof), [i \in 1..40 |-> "a"])

\* No PSYNC has been handled and no handshake thread runs (server.py:443).
NoHandshake ==
  /\ hs_pc = "off"
  /\ hs_sent = <<>>
  /\ hs_got = <<>>
  /\ hs_link = "none"

\* No length is being written or read.
NotRead == [raised |-> "not read", v |-> 0, rest |-> <<>>]
NoLength ==
  /\ size_in = 0
  /\ size_bytes = <<>>
  /\ size_read = NotRead

\* No master is at the other end of a connection.
NoMaster ==
  /\ master = <<>>
  /\ outbox = <<>>

NoReplication ==
  /\ psync_out = [c \in Conns |-> <<>>]
  /\ NoHandshake

\* The server, with no decoder at work.
InitWith(files) ==
  ServerInit(files) /\ NoReplication /\ NoLength /\ NoMaster /\ NoArguments /\ CodecInit({<<>>}) /\ WireInit({<<>>}) /\ NoSnapshot

Init == InitWith(RaceFiles)

\* ------------------------------------------------------------- the clock
Tick ==
  /\ now < MaxTime
  /\ now' = now + 1
  /\ UNCHANGED <<other_vars, store_vars, lock_vars, pc, local_vars, sent, exp_vars,
                 load_vars, ncmds, hist_vars>>

\* ------------------------------------------------------------- snapshot load
\* A loader that installs every expiry it reads.
KeepsEveryExpiry(expire_timestamp, t) == TRUE

\* parse_rdb keeps an expiry read from the file unless it is before the time of
\* the load (rdbparser.py:184).
KeepsExpiry(expire_timestamp, t) == ~(expire_timestamp < t)

\* rdbparser.py:167-169: data_store[key] = value
LoadValue ==
  /\ phase = "load"
  /\ file # <<>>
  /\ data_store' = [data_store EXCEPT ![Head(file).key] = Head(file).value]
  /\ phase' = "load_expiry"
  /\ UNCHANGED <<other_vars, now, expiry_store, lock_vars, pc, local_vars, sent, exp_vars,
                 file, ncmds, hist_vars>>

\* rdbparser.py:182-185: expiry_store[key] = expire_timestamp, for a record that
\* carries an expiry that has not passed.
LoadExpiry ==
  /\ phase = "load_expiry"
  /\ LET rec == Head(file) IN
       expiry_store' =
         IF rec.expire # NoExp /\ KeepsExpiry(rec.expire, now)
           THEN [expiry_store EXCEPT ![rec.key] = rec.expire]
           ELSE expiry_store
  /\ file' = Tail(file)
  /\ phase' = "load"
  /\ UNCHANGED <<other_vars, now, data_store, lock_vars, pc, local_vars, sent, exp_vars,
                 ncmds, hist_vars>>

\* server.py:434-455: parse_rdb has returned, or there is no file; the expiration
\* thread and the accept loop start.
StartServing ==
  /\ phase = "load"
  /\ file = <<>>
  /\ rdb \in {"none", "parsed"}
  /\ phase' = "run"
  /\ UNCHANGED <<other_vars, now, store_vars, lock_vars, pc, local_vars, sent, exp_vars,
                 file, ncmds, hist_vars>>

\* ------------------------------------------------------------- snapshot reader
\* What a read returns: the value and the bytes left in rdb_buffer, or the
\* exception it raised.
Got(v, rest) == [raised |-> "", v |-> v, rest |-> rest]
Fail(exc) == [raised |-> exc, v |-> 0, rest |-> <<>>]

\* struct.unpack of an unsigned little-endian integer; a value of 2^30 or more
\* is kept as 2^30, which no length, index or clock of the model reaches.
RECURSIVE unpack_le(_)
unpack_le(b) ==
  IF b = <<>> THEN 0
  ELSE IF unpack_le(Tail(b)) >= 2 ^ 22 THEN 2 ^ 30
  ELSE Head(b) + 256 * unpack_le(Tail(b))

\* struct.unpack('>I', b): exact below 2^31; a value from 2^31 on is kept as
\* 2^31 - 1, the largest integer there is here.
RECURSIVE unpack_be(_)
unpack_be(b) ==
  IF b = <<>> THEN 0
  ELSE IF unpack_be(SubSeq(b, 1, Len(b) - 1)) >= 2 ^ 23 THEN 2147483647
  ELSE unpack_be(SubSeq(b, 1, Len(b) - 1)) * 256 + b[Len(b)]

\* rdbparser.py:8-15
read_byte(buf) == IF buf = <<>> THEN Fail("EOFError") ELSE Got(Head(buf), Tail(buf))

\* rdbparser.py:17-39, with its calls of read_byte written out.
read_length(buf) ==
  IF buf = <<>> THEN Fail("EOFError")
  ELSE IF buf[1] \div 64 = 0 THEN Got(buf[1], Tail(buf))
  ELSE IF buf[1] \div 64 = 1
    THEN IF Len(buf) < 2 THEN Fail("EOFError")
         ELSE Got((buf[1] % 64) * 256 + buf[2], Slice(buf, 2, Len(buf)))
  ELSE IF buf[1] \div 64 = 2
    THEN IF Len(buf) < 5 THEN Fail("EOFError")
         ELSE Got(unpack_be(Slice(buf, 1, 5)), Slice(buf, 5, Len(buf)))
  ELSE Fail("ValueError")

\* rdbparser.py:46-51, the string that follows its length; the bytes from 0x80
\* on that the model has (0xFA to 0xFF) are not UTF-8.
string_bytes(length) ==
  IF length.raised # "" THEN length
  ELSE IF Len(length.rest) < length.v THEN Fail("EOFError")
  ELSE IF \E i \in 1..length.v : length.rest[i] >= 128 THEN Fail("UnicodeDecodeError")
  ELSE Got(bytes_decode(Slice(length.rest, 0, length.v)),
           Slice(length.rest, length.v, Len(length.rest)))

\* rdbparser.py:41-51
read_string(buf) == string_bytes(read_length(buf))

\* rdbparser.py:53-70
read_expire(buf, expire_opcode) ==
  IF expire_opcode = 252
    THEN IF Len(buf) < 8 THEN Fail("EOFError")
         ELSE Got(unpack_le(Slice(buf, 0, 8)), Slice(buf, 8, Len(buf)))
    ELSE IF Len(buf) < 4 THEN Fail("EOFError")
         ELSE Got(IF unpack_le(Slice(buf, 0, 4)) >= 2 ^ 20 THEN 2 ^ 30
                  ELSE unpack_le(Slice(buf, 0, 4)) * 1000,
                  Slice(buf, 4, Len(buf)))

\* [read_string(rdb_buffer) for _ in range(n)] (rdbparser.py:172, 176)
RECURSIVE read_strings(_, _, _), next_string(_, _, _)
read_strings(buf, n, acc) ==
  IF n = 0 THEN Got(acc, buf) ELSE next_string(read_string(buf), n, acc)
next_string(s, n, acc) ==
  IF s.raised # "" THEN s ELSE read_strings(s.rest, n - 1, Append(acc, Str(s.v)))

\* set(list): the members, each once.
RECURSIVE unique(_)
unique(l) ==
  IF l = <<>> THEN <<>>
  ELSE IF \E i \in 1..(Len(l) - 1) : l[i] = l[Len(l)]
    THEN unique(SubSeq(l, 1, Len(l) - 1))
    ELSE Append(unique(SubSeq(l, 1, Len(l) - 1)), l[Len(l)])

\* What parse_rdb has done when it stops: the two dicts, the bytes left, and the
\* exception that stopped it.
Loaded(data, expiry, rest, exc) ==
  [data |-> data, expiry |-> expiry, rest |-> rest, raised |-> exc]

\* rdbparser.py:167-168, 171-172, 175-176: the value of the type read.
string_value(s) == IF s.raised # "" THEN s ELSE Got(Str(s.v), s.rest)
members_value(value_type, members) ==
  IF members.raised # "" THEN members
  ELSE Got(IF value_type = 1 THEN List(members.v) ELSE SetOf(unique(members.v)), members.rest)
sized_value(value_type, size) ==
  IF size.raised # "" THEN size
  ELSE members_value(value_type, read_strings(size.rest, size.v, <<>>))

\* rdbparser.py:140-187: n key-value pairs, loaded at time t. Each operator
\* takes what the read before it returned.
RECURSIVE read_pairs(_, _, _, _, _), pair_opcode(_, _, _, _, _),
          pair_expire(_, _, _, _, _), pair_type(_, _, _, _, _, _),
          pair_key(_, _, _, _, _, _, _), pair_value(_, _, _, _, _, _, _)
read_pairs(buf, n, data, expiry, t) ==
  IF n = 0 THEN Loaded(data, expiry, buf, "")
  ELSE pair_opcode(read_byte(buf), n, data, expiry, t)

\* rdbparser.py:142-161
pair_opcode(next_byte, n, data, expiry, t) ==
  IF next_byte.raised # "" THEN Loaded(data, expiry, <<>>, "EOFError")
  ELSE IF next_byte.v \in {252, 253}
    THEN pair_expire(read_expire(next_byte.rest, next_byte.v), n, data, expiry, t)
  ELSE pair_key(NoExp, next_byte.v, read_string(next_byte.rest), n, data, expiry, t)

\* rdbparser.py:153-157
pair_expire(expire, n, data, expiry, t) ==
  IF expire.raised # "" THEN Loaded(data, expiry, <<>>, expire.raised)
  ELSE pair_type(expire.v, read_byte(expire.rest), n, data, expiry, t)

pair_type(expire_timestamp, value_type, n, data, expiry, t) ==
  IF value_type.raised # "" THEN Loaded(data, expiry, <<>>, value_type.raised)
  ELSE pair_key(expire_timestamp, value_type.v, read_string(value_type.rest),
                n, data, expiry, t)

\* rdbparser.py:164-179
pair_key(expire_timestamp, value_type, k, n, data, expiry, t) ==
  IF k.raised # "" THEN Loaded(data, expiry, <<>>, k.raised)
  ELSE IF value_type = 0
    THEN pair_value(expire_timestamp, k.v, string_value(read_string(k.rest)),
                    n, data, expiry, t)
  ELSE IF value_type \in {1, 2}
    THEN pair_value(expire_timestamp, k.v, sized_value(value_type, read_length(k.rest)),
                    n, data, expiry, t)
  ELSE Loaded(data, expiry, <<>>, "ValueError")

\* rdbparser.py:169, 173, 177, 182-185
pair_value(expire_timestamp, k, val, n, data, expiry, t) ==
  IF val.raised # "" THEN Loaded(data, expiry, <<>>, val.raised)
  ELSE read_pairs(val.rest, n - 1, dict_set(data, k, val.v),
                  IF expire_timestamp # NoExp /\ KeepsExpiry(expire_timestamp, t)
                    THEN dict_set(expiry, k, expire_timestamp)
                    ELSE expiry,
                  t)

\* rdbparser.py:120-201: the opcodes, until 0xFF or an exception, which the loop
\* catches, prints and leaves on.
RECURSIVE read_opcodes(_, _, _, _), on_opcode(_, _, _, _), on_meta_key(_, _, _, _),
          on_meta_value(_, _, _, _), on_db_index(_, _, _, _),
          on_main_ht_size(_, _, _, _), on_expire_ht_size(_, _, _, _, _), on_pairs(_, _)
read_opcodes(buf, data, expiry, t) == on_opcode(read_byte(buf), data, expiry, t)

on_opcode(opcode, data, expiry, t) ==
  IF opcode.raised # "" THEN Loaded(data, expiry, <<>>, opcode.raised)
  ELSE IF opcode.v = 250 THEN on_meta_key(read_string(opcode.rest), data, expiry, t)
  ELSE IF opcode.v = 254 THEN on_db_index(read_length(opcode.rest), data, expiry, t)
  ELSE IF opcode.v = 251 THEN on_main_ht_size(read_length(opcode.rest), data, expiry, t)
  ELSE IF opcode.v = 255 THEN Loaded(data, expiry, opcode.rest, "")
  ELSE Loaded(data, expiry, <<>>, "ValueError")

\* rdbparser.py:124-126
on_meta_key(meta_key, data, expiry, t) ==
  IF meta_key.raised # "" THEN Loaded(data, expiry, <<>>, meta_key.raised)
  ELSE on_meta_value(read_string(meta_key.rest), data, expiry, t)
on_meta_value(meta_value, data, expiry, t) ==
  IF meta_value.raised # "" THEN Loaded(data, expiry, <<>>, meta_value.raised)
  ELSE read_opcodes(meta_value.rest, data, expiry, t)

\* rdbparser.py:129-132
on_db_index(db_index, data, expiry, t) ==
  IF db_index.raised # "" THEN Loaded(data, expiry, <<>>, db_index.raised)
  ELSE IF db_index.v # 0 THEN Loaded(data, expiry, <<>>, "ValueError")
  ELSE read_opcodes(db_index.rest, data, expiry, t)

\* rdbparser.py:135-140
on_main_ht_size(main_ht_size, data, expiry, t) ==
  IF main_ht_size.raised # "" THEN Loaded(data, expiry, <<>>, main_ht_size.raised)
  ELSE on_expire_ht_size(main_ht_size.v, read_length(main_ht_size.rest), data, expiry, t)
on_expire_ht_size(main_ht_size, expire_ht_size, data, expiry, t) ==
  IF expire_ht_size.raised # "" THEN Loaded(data, expiry, <<>>, expire_ht_size.raised)
  ELSE on_pairs(read_pairs(expire_ht_size.rest, main_ht_size, data, expiry, t), t)
on_pairs(pairs, t) ==
  IF pairs.raised # "" THEN pairs
  ELSE read_opcodes(pairs.rest, pairs.data, pairs.expiry, t)

\* rdbparser.py:96-204: the last 8 bytes are cut off and nothing is done with
\* them; the header is compared; the opcodes are read into the two dicts. Every
\* exception is caught and printed, and parse_rdb returns.
parse_rdb(file_content, data, expiry, t) ==
  IF Len(file_content) < 17 THEN Loaded(data, expiry, <<>>, "ValueError")
  ELSE IF Slice(Slice(file_content, 0, -8), 0, 9) # Header
    THEN Loaded(data, expiry, <<>>, "ValueError")
  ELSE read_opcodes(Slice(Slice(file_content, 0, -8), 9, Len(file_content)), data, expiry, t)

\* ------------------------------------------------------------- history
\* Connection c reads a SET of key k: the concurrent SETs recorded for k are no
\* longer the last ones, no GET of k in flight was issued after them, the SETs
\* of k in flight overlap this one, and a GET of k that follows the acknowledged
\* SET has a SET in between.
HistSetStart(c, k) ==
  /\ conc' = [conc EXCEPT ![k] = NoConc]
  /\ get_after' = [d \in Conns |-> get_after[d] /\ key[d] # k]
  /\ set_alone' = [d \in Conns |->
                     IF d = c THEN ~(\E e \in Conns \ {c} : InSet(e, k))
                              ELSE set_alone[d] /\ ~InSet(d, k)]
  /\ acked' = [acked EXCEPT ![k].next = FALSE]
  /\ UNCHANGED last_set

\* A SET writes expiry_store[k]: a write to k after the acknowledged SET.
HistSetWrite(k) ==
  /\ acked' = [acked EXCEPT ![k] = NoAck]
  /\ UNCHANGED <<last_set, conc>>

\* The SET of connection c stores its value.
HistSetStore(c) ==
  /\ acked' = [acked EXCEPT ![key[c]] = NoAck]
  /\ last_set' = [last_set EXCEPT ![key[c]] =
                    [val |-> value[c], px |-> expiry_time[c], at |-> set_at[c]]]
  /\ UNCHANGED conc

\* The SET of connection c is acknowledged at time t.
HistSetAck(c, t) ==
  LET k == key[c]
      others == \E d \in Conns \ {c} : InSet(d, k)
  IN
  /\ acked' = [acked EXCEPT ![k] =
                 [conn |-> c, val |-> value[c],
                  due |-> IF expiry_time[c] = NoPX THEN NoExp ELSE t + expiry_time[c],
                  alone |-> set_alone[c], next |-> TRUE]]
  /\ conc' = [conc EXCEPT ![k] =
                IF expiry_time[c] # NoPX THEN NoConc
                ELSE IF others THEN [n |-> 1, vals |-> {value[c]}]
                ELSE IF conc[k].n = 1 THEN [n |-> 2, vals |-> conc[k].vals \cup {value[c]}]
                ELSE conc[k]]
  /\ UNCHANGED last_set

\* The GET of connection c replies: its next GET of the key is no longer the
\* first one after the acknowledged SET.
HistGetReply(c) ==
  acked' = [acked EXCEPT ![key[c]].next = IF acked[key[c]].conn = c THEN FALSE ELSE @]

\* An eviction removes k: the value the last SET stored is gone.
HistEvict(k) == last_set' = [last_set EXCEPT ![k] = NoSet]

\* ------------------------------------------------------------- SET
\* A connection's handler takes the next command (handle_client, server.py:351-363).
CanStart(c) ==
  /\ phase = "run"
  /\ pc[c] = "idle"
  /\ ncmds < MaxCmds

\* The expiration with the PX argument left out.
ExpirationWithoutTtl(t, px) == t

\* expiration = int(time.time() * 1000) + expiry_time (server.py:93)
Expiration(t, px) == t + px

\* SET key value PX ms: server.py:81-93, up to the wait for expiry_store_lock.
SetPXStart(c, k, v, px) ==
  /\ CanStart(c)
  /\ pc' = [pc EXCEPT ![c] = "set_install"]
  /\ key' = [key EXCEPT ![c] = k]
  /\ value' = [value EXCEPT ![c] = v]
  /\ expiry_time' = [expiry_time EXCEPT ![c] = px]
  /\ expiration' = [expiration EXCEPT ![c] = Expiration(now, px)]
  /\ set_at' = [set_at EXCEPT ![c] = now]
  /\ ncmds' = ncmds + 1
  /\ HistSetStart(c, k)
  /\ UNCHANGED <<other_vars, now, store_vars, lock_vars, current_time, pattern, sent,
                 exp_vars, load_vars>>

\* server.py:96-97: with expiry_store_lock: expiry_store[key] = expiration
SetInstall(c) ==
  /\ pc[c] = "set_install"
  /\ expiry_store_lock = Free
  /\ expiry_store' = [expiry_store EXCEPT ![key[c]] = expiration[c]]
  /\ pc' = [pc EXCEPT ![c] = "set_store"]
  /\ HistSetWrite(key[c])
  /\ UNCHANGED <<other_vars, now, data_store, lock_vars, local_vars, sent, exp_vars,
                 load_vars, ncmds>>

\* SET key value: server.py:81-86, then the elif of line 105.
SetStart(c, k, v) ==
  /\ CanStart(c)
  /\ pc' = [pc EXCEPT ![c] = "set_chk"]
  /\ key' = [key EXCEPT ![c] = k]
  /\ value' = [value EXCEPT ![c] = v]
  /\ expiry_time' = [expiry_time EXCEPT ![c] = NoPX]
  /\ ncmds' = ncmds + 1
  /\ HistSetStart(c, k)
  /\ UNCHANGED <<other_vars, now, store_vars, lock_vars, expiration, current_time, pattern,
                 set_at, sent, exp_vars, load_vars>>

\* server.py:105: elif key in expiry_store, read without expiry_store_lock.
SetChk(c) ==
  /\ pc[c] = "set_chk"
  /\ pc' = [pc EXCEPT ![c] = IF expiry_store[key[c]] # NoExp THEN "set_pop"
                                                            ELSE "set_store"]
  /\ UNCHANGED <<other_vars, now, store_vars, lock_vars, local_vars, sent, exp_vars,
                 load_vars, ncmds, hist_vars>>

\* server.py:106: expiry_store.pop(key, None), without expiry_store_lock.
SetPop(c) ==
  /\ pc[c] = "set_pop"
  /\ expiry_store' = Pop(expiry_store, key[c], NoExp)
  /\ pc' = [pc EXCEPT ![c] = "set_store"]
  /\ HistSetWrite(key[c])
  /\ UNCHANGED <<other_vars, now, data_store, lock_vars, local_vars, sent, exp_vars,
                 load_vars, ncmds>>

\* server.py:108-109: with data_store_lock: data_store[key] = value
SetStore(c) ==
  /\ pc[c] = "set_store"
  /\ data_store_lock = Free
  /\ data_store' = [data_store EXCEPT ![key[c]] = value[c]]
  /\ pc' = [pc EXCEPT ![c] = "set_reply"]
  /\ HistSetStore(c)
  /\ UNCHANGED <<other_vars, now, expiry_store, lock_vars, local_vars, sent, exp_vars,
                 load_vars, ncmds>>

\* The handler returns to handle_client's loop: its locals are gone.
Return(c) ==
  /\ pc' = [pc EXCEPT ![c] = "idle"]
  /\ key' = [key EXCEPT ![c] = <<>>]
  /\ value' = [value EXCEPT ![c] = Null]
  /\ expiry_time' = [expiry_time EXCEPT ![c] = NoPX]
  /\ expiration' = [expiration EXCEPT ![c] = NoExp]
  /\ current_time' = [current_time EXCEPT ![c] = 0]
  /\ pattern' = [pattern EXCEPT ![c] = <<>>]
  /\ set_at' = [set_at EXCEPT ![c] = 0]
  /\ get_after' = [get_after EXCEPT ![c] = FALSE]
  /\ set_alone' = [set_alone EXCEPT ![c] = FALSE]

\* server.py:110: conn.sendall(b"+OK\r\n")
SetReply(c) ==
  /\ pc[c] = "set_reply"
  /\ sent' = Response(c, "simple", "OK")
  /\ Return(c)
  /\ HistSetAck(c, now)
  /\ UNCHANGED <<other_vars, now, store_vars, lock_vars, exp_vars, load_vars, ncmds>>

\* ------------------------------------------------------------- GET
\* server.py:118-120: current_time = int(time.time() * 1000)
GetStart(c, k) ==
  /\ CanStart(c)
  /\ pc' = [pc EXCEPT ![c] = "get_chk"]
  /\ key' = [key EXCEPT ![c] = k]
  /\ current_time' = [current_time EXCEPT ![c] = now]
  /\ get_after' = [get_after EXCEPT ![c] = (conc[k].n = 2)]
  /\ ncmds' = ncmds + 1
  /\ UNCHANGED <<other_vars, now, store_vars, lock_vars, value, expiry_time, expiration,
                 pattern, set_at, set_alone, sent, exp_vars, load_vars, hist_vars>>

\* server.py:123-124: with expiry_store_lock: the expiry test. The lock is kept
\* when the key has expired and released when it has not.
GetChk(c) ==
  /\ pc[c] = "get_chk"
  /\ expiry_store_lock = Free
  /\ IF Expired(key[c], current_time[c])
       THEN /\ expiry_store_lock' = c
            /\ pc' = [pc EXCEPT ![c] = "get_evict_data"]
       ELSE /\ expiry_store_lock' = Free
            /\ pc' = [pc EXCEPT ![c] = "get_read"]
  /\ UNCHANGED <<other_vars, now, store_vars, data_store_lock, local_vars, sent, exp_vars,
                 load_vars, ncmds, hist_vars>>

\* server.py:126-127: with data_store_lock: data_store.pop(key, None)
GetEvictData(c) ==
  /\ pc[c] = "get_evict_data"
  /\ data_store_lock = Free
  /\ data_store' = Pop(data_store, key[c], Null)
  /\ pc' = [pc EXCEPT ![c] = "get_evict_expiry"]
  /\ HistEvict(key[c])
  /\ UNCHANGED <<other_vars, now, expiry_store, lock_vars, local_vars, sent, exp_vars,
                 load_vars, ncmds, acked, conc>>

\* server.py:128-130: expiry_store.pop(key, None), the null reply, and the
\* return that releases expiry_store_lock.
GetEvictExpiry(c) ==
  /\ pc[c] = "get_evict_expiry"
  /\ expiry_store' = Pop(expiry_store, key[c], NoExp)
  /\ expiry_store_lock' = Free
  /\ sent' = Response(c, "bulk", Null)
  /\ Return(c)
  /\ HistEvict(key[c])
  /\ HistGetReply(c)
  /\ UNCHANGED <<other_vars, now, data_store, data_store_lock, exp_vars, load_vars, ncmds,
                 conc>>

\* server.py:133-139: with data_store_lock: value = data_store.get(key), and the
\* reply: the value as a bulk string, or the null bulk string.
GetRead(c) ==
  /\ pc[c] = "get_read"
  /\ data_store_lock = Free
  /\ sent' = Response(c, "bulk", data_store[key[c]])
  /\ Return(c)
  /\ HistGetReply(c)
  /\ UNCHANGED <<other_vars, now, store_vars, lock_vars, exp_vars, load_vars, ncmds,
                 last_set, conc>>

\* ------------------------------------------------------------- KEYS
\* fnmatch.fnmatch(name, pat) for patterns of literals, ? and * (server.py:202).
RECURSIVE fnmatch(_, _)
fnmatch(name, pat) ==
  IF pat = <<>> THEN name = <<>>
  ELSE IF Head(pat) = "*"
    THEN \/ fnmatch(name, Tail(pat))
         \/ name # <<>> /\ fnmatch(Tail(name), pat)
  ELSE IF name = <<>> THEN FALSE
  ELSE /\ Head(pat) = "?" \/ Head(pat) = Head(name)
       /\ fnmatch(Tail(name), Tail(pat))

\* server.py:202: the keys of the list that match the pattern.
MatchingKeys(keys, pat) == {k \in keys : fnmatch(k, pat)}

\* server.py:192-196: pattern = args[0], up to the wait for data_store_lock.
KeysStart(c, p) ==
  /\ CanStart(c)
  /\ pc' = [pc EXCEPT ![c] = "keys_list"]
  /\ pattern' = [pattern EXCEPT ![c] = p]
  /\ ncmds' = ncmds + 1
  /\ UNCHANGED <<other_vars, now, store_vars, lock_vars, key, value, expiry_time, expiration,
                 current_time, set_at, get_after, set_alone, sent, exp_vars,
                 load_vars, hist_vars>>

\* server.py:198-209: with data_store_lock: keys = list(data_store.keys()), then
\* the reply: the array of the keys that match. Nothing but the handler's locals
\* is read after the lock is released.
KeysReply(c) ==
  /\ pc[c] = "keys_list"
  /\ data_store_lock = Free
  /\ sent' = Response(c, "array",
                      MatchingKeys({k \in Keys : data_store[k] # Null}, pattern[c]))
  /\ Return(c)
  /\ UNCHANGED <<other_vars, now, store_vars, lock_vars, exp_vars, load_vars, ncmds,
                 hist_vars>>

\* ------------------------------------------------------------- active expiration
\* random.sample draws min(20, len(keys_with_ttl)) keys (server.py:40).
SampleSize == 20

Min(a, b) == IF a < b THEN a ELSE b

\* random.sample(population, k) (server.py:40): the samples it can return, each
\* k different elements of the population.
RECURSIVE random_sample(_, _)
random_sample(population, k) ==
  IF k = 0 THEN {{}}
  ELSE IF k >= Cardinality(population) THEN {population}
  ELSE random_sample(population \ {CHOOSE x \in population : TRUE}, k)
         \cup {sample \cup {CHOOSE x \in population : TRUE} :
                 sample \in random_sample(population \ {CHOOSE x \in population : TRUE}, k - 1)}

\* server.py:33: current_time = int(time.time() * 1000), after the sleep.
ExpWake ==
  /\ phase = "run"
  /\ epc = "sleep"
  /\ exp_time' = now
  /\ epc' = "snapshot"
  /\ UNCHANGED <<other_vars, now, store_vars, lock_vars, pc, local_vars, sent,
                 keys_to_check, exp_key, load_vars, ncmds, hist_vars>>

\* server.py:36-40: with expiry_store_lock: keys_with_ttl = list(expiry_store.keys()),
\* then the random sample of it.
ExpSnapshot ==
  /\ epc = "snapshot"
  /\ expiry_store_lock = Free
  /\ LET keys_with_ttl == {k \in DOMAIN expiry_store : expiry_store[k] # NoExp} IN
       \E sample \in random_sample(keys_with_ttl, Min(SampleSize, Cardinality(keys_with_ttl))) :
         keys_to_check' = sample
  /\ epc' = "loop"
  /\ UNCHANGED <<other_vars, now, store_vars, lock_vars, pc, local_vars, sent, exp_time,
                 exp_key, load_vars, ncmds, hist_vars>>

\* server.py:43-45: the next key of the sample, and with expiry_store_lock the
\* expiry test. The lock is kept when the key has expired.
ExpCheck(k) ==
  /\ epc = "loop"
  /\ k \in keys_to_check
  /\ expiry_store_lock = Free
  /\ keys_to_check' = keys_to_check \ {k}
  /\ IF Expired(k, exp_time)
       THEN /\ expiry_store_lock' = Expirer
            /\ exp_key' = k
            /\ epc' = "evict_data"
       ELSE /\ UNCHANGED <<expiry_store_lock, exp_key, epc>>
  /\ UNCHANGED <<other_vars, now, store_vars, data_store_lock, pc, local_vars, sent,
                 exp_time, load_vars, ncmds, hist_vars>>

\* server.py:46-47: with data_store_lock: data_store.pop(key, None)
ExpEvictData ==
  /\ epc = "evict_data"
  /\ data_store_lock = Free
  /\ data_store' = Pop(data_store, exp_key, Null)
  /\ epc' = "evict_expiry"
  /\ HistEvict(exp_key)
  /\ UNCHANGED <<other_vars, now, expiry_store, lock_vars, pc, local_vars, sent, exp_time,
                 keys_to_check, exp_key, load_vars, ncmds, acked, conc>>

\* server.py:48: expiry_store.pop(key, None), and the end of the with block.
ExpEvictExpiry ==
  /\ epc = "evict_expiry"
  /\ expiry_store' = Pop(expiry_store, exp_key, NoExp)
  /\ expiry_store_lock' = Free
  /\ exp_key' = <<>>
  /\ epc' = "loop"
  /\ HistEvict(exp_key)
  /\ UNCHANGED <<other_vars, now, data_store, data_store_lock, pc, local_vars, sent,
                 exp_time, keys_to_check, load_vars, ncmds, acked, conc>>

\* server.py:39, 52: nothing left to check: time.sleep(0.1)
ExpSleep ==
  /\ epc = "loop"
  /\ keys_to_check = {}
  /\ epc' = "sleep"
  /\ exp_time' = 0
  /\ UNCHANGED <<other_vars, now, store_vars, lock_vars, pc, local_vars, sent,
                 keys_to_check, exp_key, load_vars, ncmds, hist_vars>>

\* ------------------------------------------------------------- the server
\* The snapshot load, then the connections' handlers and the expiration thread,
\* all contending on the keys of RaceKeys.
Next ==
  \/ Tick
  \/ LoadValue
  \/ LoadExpiry
  \/ StartServing
  \/ \E c \in Conns, k \in RaceKeys, v \in Values, px \in RaceTTLs : SetPXStart(c, k, v, px)
  \/ \E c \in Conns : SetInstall(c)
  \/ \E c \in Conns, k \in RaceKeys, v \in Values : SetStart(c, k, v)
  \/ \E c \in Conns : SetChk(c)
  \/ \E c \in Conns : SetPop(c)
  \/ \E c \in Conns : SetStore(c)
  \/ \E c \in Conns : SetReply(c)
  \/ \E c \in Conns, k \in RaceKeys : GetStart(c, k)
  \/ \E c \in Conns : GetChk(c)
  \/ \E c \in Conns : GetEvictData(c)
  \/ \E c \in Conns : GetEvictExpiry(c)
  \/ \E c \in Conns : GetRead(c)
  \/ ExpWake
  \/ ExpSnapshot
  \/ \E k \in Keys : ExpCheck(k)
  \/ ExpEvictData
  \/ ExpEvictExpiry
  \/ ExpSleep

Spec == Init /\ [][Next]_vars

\* One connection alone, served with the expiration thread asleep: every command
\* runs to its reply with no other operation interleaved. All keys are used.
SeqConn == "c1"

SeqInit == InitWith(Files)

SeqNext ==
  \/ Tick
  \/ LoadValue
  \/ LoadExpiry
  \/ StartServing
  \/ \E k \in Keys, v \in Values, px \in TTLs : SetPXStart(SeqConn, k, v, px)
  \/ SetInstall(SeqConn)
  \/ \E k \in Keys, v \in Values : SetStart(SeqConn, k, v)
  \/ SetChk(SeqConn)
  \/ SetPop(SeqConn)
  \/ SetStore(SeqConn)
  \/ SetReply(SeqConn)
  \/ \E k \in Keys : GetStart(SeqConn, k)
  \/ GetChk(SeqConn)
  \/ GetEvictData(SeqConn)
  \/ GetEvictExpiry(SeqConn)
  \/ GetRead(SeqConn)
  \/ \E p \in Patterns : KeysStart(SeqConn, p)
  \/ KeysReply(SeqConn)

SpecSeq == SeqInit /\ [][SeqNext]_vars

\* ------------------------------------------------------------- the decoder at work
\* resp.py:51-52: feed(data), with a chunk of the stream of any size.
Feed ==
  \E n \in 1..Len(stream) :
    /\ buffer' = buffer \o SubSeq(stream, 1, n)
    /\ stream' = SubSeq(stream, n + 1, Len(stream))
    /\ UNCHANGED <<server_vars, wire_vars, snap_vars, conf_vars, repl_vars, len_vars, link_vars, whole, calls, outcome,
                   decoded, frame>>

\* A call of decode returns a frame when it returns anything but None.
IsFrame(r) == r.raised = "" /\ r.ret # None

\* resp.py:54-72: one call of decode.
Decode ==
  /\ calls < MaxCalls
  /\ LET r == decode(buffer) IN
       /\ buffer' = r.buffer
       /\ outcome' = [ret |-> r.ret, raised |-> r.raised, frame |-> IsFrame(r)]
       /\ decoded' = IF IsFrame(r) THEN Append(decoded, r.ret) ELSE decoded
  /\ calls' = calls + 1
  /\ UNCHANGED <<server_vars, wire_vars, snap_vars, conf_vars, repl_vars, len_vars, link_vars, stream, whole, frame>>

CodecNext ==
  \/ Feed
  \/ Decode

InitCodec ==
  ServerInit({<<>>}) /\ NoReplication /\ NoLength /\ NoMaster /\ NoArguments /\ CodecInit(Streams) /\ WireInit({<<>>}) /\ NoSnapshot

SpecCodec == InitCodec /\ [][CodecNext]_vars

\* Streams that open with a bulk string or an array whose length or count is
\* not decimal, or is negative and not -1.
Malformed ==
  { str_encode(<<"$", "a", "\r", "\n", "a", "\r", "\n">>),
    str_encode(<<"$", "-", "2", "\r", "\n", "a", "a", "\r", "\n">>),
    str_encode(<<"$", "1", "a", "\r", "\n", "a", "\r", "\n">>),
    str_encode(<<"$", "\r", "\n">>),
    str_encode(<<"*", "a", "\r", "\n">>),
    str_encode(<<"*", "-", "3", "\r", "\n", ":", "1", "\r", "\n">>),
    str_encode(<<"*", "1", " ", "1", "\r", "\n", ":", "1", "\r", "\n">>) }

\* The decoder fed a stream with a malformed header.
InitMalformed ==
  ServerInit({<<>>}) /\ NoReplication /\ NoLength /\ NoMaster /\ NoArguments /\ CodecInit(Malformed) /\ WireInit({<<>>}) /\ NoSnapshot

SpecMalformed == InitMalformed /\ [][CodecNext]_vars

\* The decoder fed one encoded frame.
InitRoundTrip ==
  ServerInit({<<>>}) /\ NoReplication /\ NoLength /\ NoMaster /\ NoArguments /\ RoundTripInit /\ WireInit({<<>>}) /\ NoSnapshot

SpecRoundTrip == InitRoundTrip /\ [][CodecNext]_vars

\* ------------------------------------------------------------- snapshot file
\* The dicts write_rdb is given: strings, a list, sets of one, two and three
\* members; an expiry, at most, before, at or after any time of a load.
SnapKeys == {<<"a">>, <<"a", "b">>}
SnapValues ==
  { Str(<<"v", "1">>),
    List(<<Str(<<"a">>), Str(<<"b">>)>>),
    SetOf(<<Str(<<"a">>)>>),
    SetOf(<<Str(<<"a">>), Str(<<"b">>)>>),
    SetOf(<<Str(<<"b">>), Str(<<"a">>), Str(<<"v", "1">>)>>) }
SnapData ==
  {<<>>} \cup {<<Item(<<"a">>, v)>> : v \in SnapValues}
         \cup {<<Item(<<"a">>, Str(<<"v", "1">>)), Item(<<"a", "b">>, v)>> : v \in SnapValues}
SnapExpiry == {<<>>} \cup {<<Item(k, e)>> : k \in SnapKeys, e \in 0..(MaxTime + 1)}

\* A server is about to write its dicts to rdb_path, the expiry table being one
\* of keys of the data map; the next server has not started.
SnapInit ==
  /\ rdb = "save"
  /\ snap_data \in SnapData
  /\ snap_expiry \in SnapExpiry
  /\ dict_keys(snap_expiry) \subseteq dict_keys(snap_data)
  /\ disk = <<>>
  /\ rdb_data_store = <<>>
  /\ rdb_expiry_store = <<>>
  /\ rdb_error = ""
  /\ saving = [c \in Conns |-> NotSaving]

\* save_rdb.py:68-142
WriteRdb ==
  /\ rdb = "save"
  /\ disk' = write_rdb(snap_data, snap_expiry).bytes
  /\ rdb' = "file"
  /\ UNCHANGED <<server_vars, codec_vars, wire_vars, conf_vars, repl_vars, len_vars, link_vars, snap_data, snap_expiry,
                 rdb_data_store, rdb_expiry_store, rdb_error, saving>>

\* The bytes a damaged file may hold in the place of one of its own.
DamageBytes == {1, 3}

\* The file is damaged where it lies: one byte is changed.
Damage ==
  /\ rdb = "file"
  /\ \E i \in 1..Len(disk), b \in DamageBytes :
       /\ disk[i] # b
       /\ disk' = [disk EXCEPT ![i] = b]
  /\ rdb' = "harmed"
  /\ UNCHANGED <<server_vars, codec_vars, wire_vars, conf_vars, repl_vars, len_vars, link_vars, snap_data, snap_expiry,
                 rdb_data_store, rdb_expiry_store, rdb_error, saving>>

\* The file is damaged where it lies: its end is cut off.
Truncate ==
  /\ rdb = "file"
  /\ \E n \in 1..Len(disk) : disk' = SubSeq(disk, 1, Len(disk) - n)
  /\ rdb' = "harmed"
  /\ UNCHANGED <<server_vars, codec_vars, wire_vars, conf_vars, repl_vars, len_vars, link_vars, snap_data, snap_expiry,
                 rdb_data_store, rdb_expiry_store, rdb_error, saving>>

\* server.py:434-437: main finds the file and calls parse_rdb on the empty
\* dicts; the clock read at rdbparser.py:183 is the clock of the call.
ParseRdb ==
  /\ phase = "load"
  /\ rdb \in {"file", "harmed"}
  /\ LET loaded == parse_rdb(disk, <<>>, <<>>, now) IN
       /\ rdb_data_store' = loaded.data
       /\ rdb_expiry_store' = loaded.expiry
       /\ rdb_error' = loaded.raised
  /\ rdb' = "parsed"
  /\ UNCHANGED <<server_vars, codec_vars, wire_vars, conf_vars, repl_vars, len_vars, link_vars, snap_data, snap_expiry, disk, saving>>

SnapNext == WriteRdb \/ Damage \/ Truncate \/ Tick \/ ParseRdb \/ StartServing

\* A snapshot written by one server and loaded by the next.
InitSnap ==
  ServerInit({<<>>}) /\ NoReplication /\ NoLength /\ NoMaster /\ NoArguments /\ CodecInit({<<>>}) /\ WireInit({<<>>}) /\ SnapInit

SpecSnap == InitSnap /\ [][SnapNext]_vars

\* ------------------------------------------------------------- one length, written and read
\* The lengths given to the writer: those around the limits of the three
\* forms and of the bytes of the long form, up to the largest integer there
\* is here.
Lengths ==
  (0..3) \cup (61..66) \cup (254..257) \cup (16381..16386) \cup (65534..65537)
    \cup {2 ^ 24 - 1, 2 ^ 24, 2 ^ 24 + 1, 2 ^ 30 - 1, 2 ^ 30, 2 ^ 30 + 1,
          2147483646, 2147483647}

\* What follows the length in the file.
Following == {<<>>, <<0>>, <<255, 1>>, <<192, 0, 0, 0, 1>>}

\* The first bytes whose top bits are 11.
SpecialBytes == 192..255

\* save_rdb.py:6-20: a length is written, and the file goes on.
WriteLength(L, rest) ==
  /\ size_bytes = <<>>
  /\ size_in' = L
  /\ size_bytes' = encode_length_for_write(L) \o rest
  /\ UNCHANGED <<server_vars, codec_vars, wire_vars, snap_vars, conf_vars, repl_vars, link_vars,
                 size_read>>

\* A file of another writer, with a special encoding where a length stands.
WriteSpecial(b, rest) ==
  /\ size_bytes = <<>>
  /\ size_bytes' = <<b>> \o rest
  /\ UNCHANGED <<server_vars, codec_vars, wire_vars, snap_vars, conf_vars, repl_vars, link_vars,
                 size_in,
                 size_read>>

\* rdbparser.py:17-39: read_length(file)
ReadLength ==
  /\ size_bytes # <<>>
  /\ size_read = NotRead
  /\ size_read' = read_length(size_bytes)
  /\ UNCHANGED <<server_vars, codec_vars, wire_vars, snap_vars, conf_vars, repl_vars, link_vars,
                 size_in,
                 size_bytes>>

LengthNext ==
  \/ \E L \in Lengths, rest \in Following : WriteLength(L, rest)
  \/ \E b \in SpecialBytes, rest \in Following : WriteSpecial(b, rest)
  \/ ReadLength

SpecLength == InitWith({<<>>}) /\ [][LengthNext]_vars

\* ------------------------------------------------------------- SAVE
\* The text of a stored value.
Text == ("v1" :> <<"v", "1">>) @@ ("v2" :> <<"v", "2">>)

\* The keys a store holds, and a set of keys in the order a dict of them is
\* walked (the shorter key first).
stored(store, absent) == {k \in DOMAIN store : store[k] # absent}
RECURSIVE in_order(_)
in_order(S) ==
  IF S = {} THEN <<>>
  ELSE <<CHOOSE k \in S : \A other \in S : Len(k) <= Len(other)>>
         \o in_order(S \ {CHOOSE k \in S : \A other \in S : Len(k) <= Len(other)})

\* data_store.items() (save_rdb.py:104)
items(store) ==
  [i \in 1..Cardinality(stored(store, Null)) |->
     Item(in_order(stored(store, Null))[i],
          Str(Text[store[in_order(stored(store, Null))[i]]]))]

\* A with statement that leaves its lock held.
with_exit_keeping_lock(c, lock) == lock

\* server.py:169: the end of the with statement, by its last line or by an
\* exception, releases the lock the thread holds.
with_exit(c, lock) == IF lock = c THEN Free ELSE lock

\* SAVE: handle_client calls handle_save_command (server.py:371-372).
SaveStart(c) ==
  /\ CanStart(c)
  /\ pc' = [pc EXCEPT ![c] = "save_lock_data"]
  /\ ncmds' = ncmds + 1
  /\ UNCHANGED <<other_vars, now, store_vars, lock_vars, local_vars, sent, exp_vars,
                 load_vars, hist_vars>>

\* server.py:169: with data_store_lock, expiry_store_lock: the first lock
SaveLockData(c) ==
  /\ pc[c] = "save_lock_data"
  /\ data_store_lock = Free
  /\ data_store_lock' = c
  /\ pc' = [pc EXCEPT ![c] = "save_lock_expiry"]
  /\ UNCHANGED <<other_vars, now, store_vars, expiry_store_lock, local_vars, sent, exp_vars,
                 load_vars, ncmds, hist_vars>>

\* server.py:169: the second lock
SaveLockExpiry(c) ==
  /\ pc[c] = "save_lock_expiry"
  /\ expiry_store_lock = Free
  /\ expiry_store_lock' = c
  /\ pc' = [pc EXCEPT ![c] = "save_open"]
  /\ UNCHANGED <<other_vars, now, store_vars, data_store_lock, local_vars, sent, exp_vars,
                 load_vars, ncmds, hist_vars>>

\* save_rdb.py:73-104: open(filename, 'wb') empties the file; the header, the
\* metadata and the sizes go to the buffer of the file object; the loop over
\* the items starts.
SaveOpen(c) ==
  /\ pc[c] = "save_open"
  /\ disk' = <<>>
  /\ rdb' = "file"
  /\ saving' = [saving EXCEPT ![c] =
                  [buf |-> Preamble(items(data_store), in_order(stored(expiry_store, NoExp))),
                   items |-> items(data_store),
                   found |-> FALSE]]
  /\ pc' = [pc EXCEPT ![c] = "save_check"]
  /\ UNCHANGED <<codec_vars, wire_vars, conf_vars, repl_vars, len_vars, link_vars, snap_data, snap_expiry, rdb_data_store,
                 rdb_expiry_store, rdb_error, now, store_vars, lock_vars, local_vars,
                 sent, exp_vars, load_vars, ncmds, hist_vars>>

\* save_rdb.py:106: if key in expiry_store
SaveCheck(c) ==
  /\ pc[c] = "save_check"
  /\ saving[c].items # <<>>
  /\ saving' = [saving EXCEPT ![c].found = expiry_store[Head(saving[c].items).key] # NoExp]
  /\ pc' = [pc EXCEPT ![c] = "save_item"]
  /\ UNCHANGED <<codec_vars, wire_vars, conf_vars, repl_vars, len_vars, link_vars, rdb, snap_data, snap_expiry, disk, rdb_data_store,
                 rdb_expiry_store, rdb_error, now, store_vars, lock_vars, local_vars,
                 sent, exp_vars, load_vars, ncmds, hist_vars>>

\* save_rdb.py:107-130: expiry_store[key] and the record of the item. A key that
\* has left expiry_store since line 106 raises KeyError: the with statements
\* close the file, which writes the buffer, and release the locks.
SaveItem(c) ==
  /\ pc[c] = "save_item"
  /\ IF saving[c].found /\ expiry_store[Head(saving[c].items).key] = NoExp
       THEN /\ disk' = saving[c].buf
            /\ saving' = [saving EXCEPT ![c] = NotSaving]
            /\ data_store_lock' = with_exit(c, data_store_lock)
            /\ expiry_store_lock' = with_exit(c, expiry_store_lock)
            /\ pc' = [pc EXCEPT ![c] = "save_fail"]
       ELSE /\ saving' =
                 [saving EXCEPT
                    ![c].buf =
                      saving[c].buf
                        \o (IF saving[c].found
                              THEN encode_expire_ms_for_write(
                                     expiry_store[Head(saving[c].items).key])
                              ELSE <<>>)
                        \o value_record(Head(saving[c].items).key, Head(saving[c].items).val),
                    ![c].items = Tail(saving[c].items)]
            /\ pc' = [pc EXCEPT ![c] = "save_check"]
            /\ UNCHANGED <<disk, lock_vars>>
  /\ UNCHANGED <<codec_vars, wire_vars, conf_vars, repl_vars, len_vars, link_vars, rdb, snap_data, snap_expiry, rdb_data_store,
                 rdb_expiry_store, rdb_error, now, store_vars, local_vars,
                 sent, exp_vars, load_vars, ncmds, hist_vars>>

\* save_rdb.py:133-137: the end-of-file opcode; the with statement closes the
\* file, which writes the buffer.
SaveClose(c) ==
  /\ pc[c] = "save_check"
  /\ saving[c].items = <<>>
  /\ disk' = saving[c].buf \o <<255>>
  /\ saving' = [saving EXCEPT ![c] = NotSaving]
  /\ pc' = [pc EXCEPT ![c] = "save_crc"]
  /\ UNCHANGED <<codec_vars, wire_vars, conf_vars, repl_vars, len_vars, link_vars, rdb, snap_data, snap_expiry, rdb_data_store,
                 rdb_expiry_store, rdb_error, now, store_vars, lock_vars, local_vars,
                 sent, exp_vars, load_vars, ncmds, hist_vars>>

\* save_rdb.py:138: append_crc64(filename)
SaveAppend(c) ==
  /\ pc[c] = "save_crc"
  /\ disk' = append_crc64(disk)
  /\ pc' = [pc EXCEPT ![c] = "save_unlock"]
  /\ UNCHANGED <<codec_vars, wire_vars, conf_vars, repl_vars, len_vars, link_vars, rdb, snap_data, snap_expiry, rdb_data_store,
                 rdb_expiry_store, rdb_error, saving, now, store_vars, lock_vars,
                 local_vars, sent, exp_vars, load_vars, ncmds, hist_vars>>

\* server.py:169-178: the with statement ends and releases both locks.
SaveUnlock(c) ==
  /\ pc[c] = "save_unlock"
  /\ data_store_lock' = with_exit(c, data_store_lock)
  /\ expiry_store_lock' = with_exit(c, expiry_store_lock)
  /\ pc' = [pc EXCEPT ![c] = "save_reply"]
  /\ UNCHANGED <<other_vars, now, store_vars, local_vars, sent, exp_vars, load_vars,
                 ncmds, hist_vars>>

\* server.py:181: conn.sendall(b"+OK\r\n")
SaveReply(c) ==
  /\ pc[c] = "save_reply"
  /\ sent' = Response(c, "simple", "OK")
  /\ Return(c)
  /\ UNCHANGED <<other_vars, now, store_vars, lock_vars, exp_vars, load_vars, ncmds,
                 hist_vars>>

\* server.py:183-185: conn.sendall(b"-ERR Failed to save RDB file\r\n")
SaveFail(c) ==
  /\ pc[c] = "save_fail"
  /\ sent' = Response(c, "error", "Failed to save RDB file")
  /\ Return(c)
  /\ UNCHANGED <<other_vars, now, store_vars, lock_vars, exp_vars, load_vars, ncmds,
                 hist_vars>>

\* Two connections that SET one key and SAVE.
SaveNext ==
  \/ Tick
  \/ StartServing
  \/ \E c \in Conns, k \in RaceKeys, v \in Values, px \in RaceTTLs : SetPXStart(c, k, v, px)
  \/ \E c \in Conns : SetInstall(c)
  \/ \E c \in Conns, k \in RaceKeys, v \in Values : SetStart(c, k, v)
  \/ \E c \in Conns : SetChk(c)
  \/ \E c \in Conns : SetPop(c)
  \/ \E c \in Conns : SetStore(c)
  \/ \E c \in Conns : SetReply(c)
  \/ \E c \in Conns : SaveStart(c)
  \/ \E c \in Conns : SaveLockData(c)
  \/ \E c \in Conns : SaveLockExpiry(c)
  \/ \E c \in Conns : SaveOpen(c)
  \/ \E c \in Conns : SaveCheck(c)
  \/ \E c \in Conns : SaveItem(c)
  \/ \E c \in Conns : SaveClose(c)
  \/ \E c \in Conns : SaveAppend(c)
  \/ \E c \in Conns : SaveUnlock(c)
  \/ \E c \in Conns : SaveReply(c)
  \/ \E c \in Conns : SaveFail(c)

SpecSave == InitWith({<<>>}) /\ [][SaveNext]_vars

\* The value the SETs of SaveFailNext store.
OneValue == "v1"

\* Two connections that SET one key to one value, with PX and without, and
\* SAVE, the clock standing still.
SaveFailNext ==
  \/ StartServing
  \/ \E c \in Conns, k \in RaceKeys, px \in RaceTTLs : SetPXStart(c, k, OneValue, px)
  \/ \E c \in Conns : SetInstall(c)
  \/ \E c \in Conns, k \in RaceKeys : SetStart(c, k, OneValue)
  \/ \E c \in Conns : SetChk(c)
  \/ \E c \in Conns : SetPop(c)
  \/ \E c \in Conns : SetStore(c)
  \/ \E c \in Conns : SetReply(c)
  \/ \E c \in Conns : SaveStart(c)
  \/ \E c \in Conns : SaveLockData(c)
  \/ \E c \in Conns : SaveLockExpiry(c)
  \/ \E c \in Conns : SaveOpen(c)
  \/ \E c \in Conns : SaveCheck(c)
  \/ \E c \in Conns : SaveItem(c)
  \/ \E c \in Conns : SaveClose(c)
  \/ \E c \in Conns : SaveAppend(c)
  \/ \E c \in Conns : SaveUnlock(c)
  \/ \E c \in Conns : SaveReply(c)
  \/ \E c \in Conns : SaveFail(c)

SpecSaveFail == InitWith({<<>>}) /\ [][SaveFailNext]_vars

\* The threads that take the locks: the connections' handlers (server.py:455)
\* and the expiration thread (server.py:441).
Workers == Conns \cup {Expirer}

\* Two connections that SET one key with PX, GET it and SAVE, the clock
\* running and the expiration thread at work.
LockNext ==
  \/ Tick
  \/ StartServing
  \/ \E c \in Conns, k \in RaceKeys, px \in RaceTTLs : SetPXStart(c, k, OneValue, px)
  \/ \E c \in Conns : SetInstall(c)
  \/ \E c \in Conns : SetStore(c)
  \/ \E c \in Conns : SetReply(c)
  \/ \E c \in Conns, k \in RaceKeys : GetStart(c, k)
  \/ \E c \in Conns : GetChk(c)
  \/ \E c \in Conns : GetEvictData(c)
  \/ \E c \in Conns : GetEvictExpiry(c)
  \/ \E c \in Conns : GetRead(c)
  \/ ExpWake
  \/ ExpSnapshot
  \/ \E k \in Keys : ExpCheck(k)
  \/ ExpEvictData
  \/ ExpEvictExpiry
  \/ ExpSleep
  \/ \E c \in Conns : SaveStart(c)
  \/ \E c \in Conns : SaveLockData(c)
  \/ \E c \in Conns : SaveLockExpiry(c)
  \/ \E c \in Conns : SaveOpen(c)
  \/ \E c \in Conns : SaveCheck(c)
  \/ \E c \in Conns : SaveItem(c)
  \/ \E c \in Conns : SaveClose(c)
  \/ \E c \in Conns : SaveAppend(c)
  \/ \E c \in Conns : SaveUnlock(c)
  \/ \E c \in Conns : SaveReply(c)

SpecLock == InitWith({<<>>}) /\ [][LockNext]_vars

\* ------------------------------------------------------------- a large expiry table
\* More keys than one sample of active_expiration takes.
ManyKeys ==
  {<<"a">>} \cup
  {<<"a", ch>> : ch \in {"b", "c", "d", "e", "f", "g", "h", "i", "j", "k", "l",
                          "m", "n", "o", "p", "q", "r", "s", "t", "u"}}

\* An expiry no clock of a run reaches.
FarExpiry == MaxTime + 2

\* A snapshot file with a record for each of them: the expiry of <<"a">> is
\* one millisecond after the load, the others are far.
ManyFile ==
  [i \in 1..Cardinality(ManyKeys) |->
     [key |-> in_order(ManyKeys)[i], value |-> OneValue,
      expire |-> IF in_order(ManyKeys)[i] = <<"a">> THEN 1 ELSE FarExpiry]]

\* for key in keys_to_check (server.py:43), in one of the orders random.sample
\* returns the sample in.
OneOrder(sample) == IF sample = {} THEN {} ELSE {CHOOSE k \in sample : TRUE}

ExpCheckInOrder(k) == k \in OneOrder(keys_to_check) /\ ExpCheck(k)

\* The expiration thread beside two connections that SET one key, with PX
\* and without; or, after the load of ManyFile, with no command sent.
ExpireNext ==
  \/ Tick
  \/ LoadValue
  \/ LoadExpiry
  \/ StartServing
  \/ \E c \in Conns, k \in RaceKeys, px \in RaceTTLs : SetPXStart(c, k, OneValue, px)
  \/ \E c \in Conns : SetInstall(c)
  \/ \E c \in Conns, k \in RaceKeys : SetStart(c, k, OneValue)
  \/ \E c \in Conns : SetChk(c)
  \/ \E c \in Conns : SetPop(c)
  \/ \E c \in Conns : SetStore(c)
  \/ \E c \in Conns : SetReply(c)
  \/ ExpWake
  \/ ExpSnapshot
  \/ \E k \in ManyKeys : ExpCheckInOrder(k)
  \/ ExpEvictData
  \/ ExpEvictExpiry
  \/ ExpSleep

InitExpire ==
  /\ \/ ServerInitOver(Keys, {<<>>}, 0)
     \/ ServerInitOver(ManyKeys, {ManyFile}, MaxCmds)
  /\ NoReplication /\ NoLength /\ NoMaster /\ NoArguments /\ CodecInit({<<>>}) /\ WireInit({<<>>}) /\ NoSnapshot

SpecExpire == InitExpire /\ [][ExpireNext]_vars

\* ------------------------------------------------------------- a snapshot of old expiries
\* Snapshot files whose records all carry an expiry, at the start of the clock
\* or one millisecond after it.
ExpiringFiles ==
  { << [key |-> <<"a">>, value |-> "v1", expire |-> e] >> : e \in {0, 1} }
  \cup
  { << [key |-> <<"a">>, value |-> "v1", expire |-> e],
       [key |-> <<"a", "b">>, value |-> "v2", expire |-> 1] >> : e \in {0, 1} }

\* The server that loads one of them, at any time of the clock, and then two
\* connections that GET, the expiration thread at work.
LoadNext ==
  \/ Tick
  \/ LoadValue
  \/ LoadExpiry
  \/ StartServing
  \/ \E c \in Conns, k \in Keys : GetStart(c, k)
  \/ \E c \in Conns : GetChk(c)
  \/ \E c \in Conns : GetEvictData(c)
  \/ \E c \in Conns : GetEvictExpiry(c)
  \/ \E c \in Conns : GetRead(c)
  \/ ExpWake
  \/ ExpSnapshot
  \/ \E k \in Keys : ExpCheck(k)
  \/ ExpEvictData
  \/ ExpEvictExpiry
  \/ ExpSleep

SpecLoad == InitWith(ExpiringFiles) /\ [][LoadNext]_vars

\* ------------------------------------------------------------- SET, from its arguments
\* What handle_set_command decides from args before it touches a store: the
\* error it replies with, or the PX argument of the SET it goes on with.
Rejects(text) == [error |-> text, px |-> NoPX]
Accepts(px) == [error |-> "", px |-> px]

\* handle_set_command with any third argument read as PX.
handle_set_command_any_option(args) ==
  IF Len(args) >= 2
    THEN IF Len(args) > 2
           THEN IF Len(args) > 3
                  THEN IF int_raises(args[4])
                         THEN Rejects("PX value must be an integer")
                         ELSE Accepts(int(args[4]))
                  ELSE Rejects("PX value missing")
           ELSE Accepts(NoPX)
    ELSE Rejects("Wrong number of arguments for SET")

\* server.py:81-112: the branches of handle_set_command. args[i] of the code is
\* args[i + 1] here.
handle_set_command(args) ==
  IF Len(args) >= 2
    THEN IF Len(args) > 2
           THEN IF upper(args[3]) # <<"P", "X">>
                  THEN Rejects("Invalid arguments for SET")
                ELSE IF Len(args) > 3
                  THEN IF int_raises(args[4])
                         THEN Rejects("PX value must be an integer")
                         ELSE Accepts(int(args[4]))
                  ELSE Rejects("PX value missing")
           ELSE Accepts(NoPX)
    ELSE Rejects("Wrong number of arguments for SET")

\* The arguments of the SETs the clients send: none, a key, a key and a value,
\* and these with PX or another option, without a value and with one, an
\* integer or not, and with one argument more.
SetArgs ==
  LET k == <<"a">>
      v == Text["v1"]
  IN { <<>>, <<k>>, <<k, v>>,
       <<k, v, <<"P", "X">>>>, <<k, v, <<"E", "X">>>>,
       <<k, v, <<"p", "x">>, <<"1">>>>, <<k, v, <<"E", "X">>, <<"1">>>>,
       <<k, v, <<"P", "X">>, <<"a">>>>, <<k, v, <<"P", "X">>, <<"1", ".", "0">>>>,
       <<k, v, <<"P", "X">>, <<"1">>, <<"a">>>> }

\* The value a text stands for in data_store.
value_of(text) == CHOOSE v \in Values : Text[v] = text

\* server.py:88-89, 101-104, 111-112: the SET is rejected, handle_set_command
\* returns and handle_client's loop goes on (server.py:349).
SetReject(c, text) ==
  /\ CanStart(c)
  /\ sent' = Response(c, "error", text)
  /\ ncmds' = ncmds + 1
  /\ UNCHANGED <<other_vars, now, store_vars, lock_vars, pc, local_vars, exp_vars,
                 load_vars, hist_vars>>

\* server.py:370-371 and 81-112: SET with the arguments args.
SetCommand(c, args) ==
  IF handle_set_command(args).error # ""
    THEN SetReject(c, handle_set_command(args).error)
  ELSE IF handle_set_command(args).px # NoPX
    THEN SetPXStart(c, args[1], value_of(args[2]), handle_set_command(args).px)
  ELSE SetStart(c, args[1], value_of(args[2]))

SetNext ==
  \/ Tick
  \/ StartServing
  \/ \E c \in Conns, args \in SetArgs : SetCommand(c, args)
  \/ \E c \in Conns :
       \/ SetInstall(c)
       \/ SetChk(c)
       \/ SetPop(c)
       \/ SetStore(c)
       \/ SetReply(c)

\* Two connections that send SETs, well-formed or not.
SpecSet == InitWith({<<>>}) /\ [][SetNext]_vars

\* ------------------------------------------------------------- CONFIG GET
\* What a handler does: it sends a response and returns, or raises.
Sends(kind, val) == [raised |-> "", kind |-> kind, val |-> val]
Raises(exc) == [raised |-> exc, kind |-> "none", val |-> <<>>]

\* len(x): of a str its length, of None and of an int a TypeError.
len_raises(x) == x.t # "str"

\* server.py:160: the f-string of the two bulk strings, for a value that has a
\* length.
config_response(param_name, param_value) ==
  <<"*", "2", "\r", "\n", "$">> \o str(Len(param_name)) \o <<"\r", "\n">> \o param_name
    \o <<"\r", "\n", "$">> \o str(Len(param_value.v)) \o <<"\r", "\n">> \o param_value.v
    \o <<"\r", "\n">>

\* server.py:147-161. args[i] of the code is args[i + 1] here.
handle_config_get_command(conf, args) ==
  IF Len(args) # 2 THEN Sends("error", "Invalid CONFIG GET syntax")
  ELSE IF upper(args[1]) # <<"G", "E", "T">> THEN Sends("error", "Invalid CONFIG GET syntax")
  ELSE IF args[2] \notin dict_keys(conf)
    THEN Sends("error", "Unknown configuration parameter")
  ELSE IF len_raises(dict_get(conf, args[2])) THEN Raises("TypeError")
  ELSE Sends("text", config_response(args[2], dict_get(conf, args[2])))

\* The option names of config, and the arguments of the CONFIG commands the
\* clients send: GET of each name and of two names config does not have, in
\* upper and lower case, and commands that are not CONFIG GET name.
OptionNames ==
  { <<"d", "i", "r">>,
    <<"d", "b", "f", "i", "l", "e", "n", "a", "m", "e">>,
    <<"r", "o", "l", "e">>,
    <<"m", "a", "s", "t", "e", "r", "_", "h", "o", "s", "t">>,
    <<"m", "a", "s", "t", "e", "r", "_", "p", "o", "r", "t">>,
    <<"m", "a", "s", "t", "e", "r", "_", "r", "e", "p", "l", "i", "d">>,
    <<"m", "a", "s", "t", "e", "r", "_", "r", "e", "p", "l", "_", "o", "f", "f", "s", "e", "t">>,
    <<"p", "o", "r", "t">> }
ConfigArgs ==
  {<<<<"G", "E", "T">>, name>> : name \in OptionNames \cup {<<"a">>, <<"D", "I", "R">>}}
    \cup { <<<<"g", "e", "t">>, <<"d", "i", "r">>>>, <<<<"G", "E", "T">>>>,
           <<<<"S", "E", "T">>, <<"d", "i", "r">>>>, <<>> }

\* server.py:374-375 and 147-161: CONFIG with the arguments args; an exception
\* of the handler ends handle_client's loop, which closes the connection
\* (server.py:348, 395-397).
ConfigGet(c, args) ==
  /\ CanStart(c)
  /\ IF handle_config_get_command(config, args).raised # ""
       THEN /\ pc' = [pc EXCEPT ![c] = "closed"]
            /\ sent' = sent
       ELSE /\ pc' = pc
            /\ sent' = Response(c, handle_config_get_command(config, args).kind,
                                handle_config_get_command(config, args).val)
  /\ ncmds' = ncmds + 1
  /\ UNCHANGED <<other_vars, now, store_vars, lock_vars, local_vars, exp_vars, load_vars,
                 hist_vars>>

ConfigNext ==
  \/ StartServing
  \/ \E c \in Conns, args \in ConfigArgs : ConfigGet(c, args)

\* Two connections that send CONFIG commands to a server started as a master
\* or as a replica.
InitConfig ==
  ServerInit({<<>>}) /\ NoReplication /\ NoLength /\ NoMaster /\ config \in Configs /\ CodecInit({<<>>}) /\ WireInit({<<>>})
    /\ NoSnapshot

SpecConfig == InitConfig /\ [][ConfigNext]_vars

\* ------------------------------------------------------------- PSYNC
\* What an f-string makes of a value: a str as it is, None as None, an int in
\* decimal.
format(val) ==
  IF val.t = "str" THEN val.v
  ELSE IF val.t = "None" THEN <<"N", "o", "n", "e">>
  ELSE str(val.v)

\* A sendall of handle_psync_command: an error line, or bytes.
Refuses(text) == [kind |-> "error", text |-> text, bytes |-> <<>>]
Bytes(b) == [kind |-> "bytes", text |-> "", bytes |-> b]

\* server.py:254-268, 283-285: the first sendall of handle_psync_command.
\* args[i] of the code is args[i + 1] here.
handle_psync_command(conf, args) ==
  IF Len(args) # 2 THEN Refuses("Wrong number of arguments for PSYNC")
  ELSE IF args[1] = <<"?">> /\ args[2] = <<"-", "1">>
    THEN Bytes(str_encode(<<"+", "F", "U", "L", "L", "R", "E", "S", "Y", "N", "C", " ">>
                 \o format(dict_get(conf, <<"m", "a", "s", "t", "e", "r", "_", "r", "e", "p", "l", "i", "d">>))
                 \o <<" ", "0", "\r", "\n">>))
  ELSE Refuses("Unsupported PSYNC arguments")

\* server.py:276-278: rdb_response, from the content of the file.
rdb_response(rdb_content) ==
  str_encode(<<"$">> \o str(Len(rdb_content)) \o <<"\r", "\n">>) \o rdb_content

\* The arguments of the PSYNCs the clients send: ? -1, a replication id of the
\* master with an offset, other ids and offsets, and one argument only.
PsyncArgs ==
  { <<<<"?">>, <<"-", "1">>>>, <<<<"?">>, <<"0">>>>, <<<<"a">>, <<"-", "1">>>>,
    <<[i \in 1..40 |-> "a"], <<"0">>>>, <<<<"?">>>> }

\* server.py:384-385 and 254-269, 283-285: PSYNC with the arguments args, up to
\* the first sendall; an error ends the handler.
PsyncStart(c, args) ==
  /\ CanStart(c)
  /\ psync_out' = [psync_out EXCEPT ![c] = <<handle_psync_command(config, args)>>]
  /\ sent' = Response(c, handle_psync_command(config, args).kind,
                      handle_psync_command(config, args).text)
  /\ pc' = [pc EXCEPT ![c] = IF handle_psync_command(config, args).kind = "error"
                               THEN "idle" ELSE "psync_file"]
  /\ ncmds' = ncmds + 1
  /\ UNCHANGED <<codec_vars, wire_vars, snap_vars, conf_vars, len_vars, link_vars, hs_vars, now, store_vars,
                 lock_vars, local_vars, exp_vars, load_vars, hist_vars>>

\* server.py:269-279: the file at rdb_path, if there is one, is read and sent
\* with its length before it.
PsyncFile(c) ==
  /\ pc[c] = "psync_file"
  /\ IF rdb # "none"
       THEN /\ psync_out' = [psync_out EXCEPT ![c] = Append(@, Bytes(rdb_response(disk)))]
            /\ sent' = Response(c, "bytes", "")
       ELSE UNCHANGED <<psync_out, sent>>
  /\ Return(c)
  /\ UNCHANGED <<codec_vars, wire_vars, snap_vars, conf_vars, len_vars, link_vars, hs_vars, now, store_vars,
                 lock_vars, exp_vars, load_vars, ncmds, hist_vars>>

\* Two connections that SET one key, SAVE and send PSYNCs.
PsyncNext ==
  \/ StartServing
  \/ \E c \in Conns, k \in RaceKeys, v \in Values : SetStart(c, k, v)
  \/ \E c \in Conns : SetChk(c)
  \/ \E c \in Conns : SetStore(c)
  \/ \E c \in Conns : SetReply(c)
  \/ \E c \in Conns : SaveStart(c)
  \/ \E c \in Conns : SaveLockData(c)
  \/ \E c \in Conns : SaveLockExpiry(c)
  \/ \E c \in Conns : SaveOpen(c)
  \/ \E c \in Conns : SaveCheck(c)
  \/ \E c \in Conns : SaveItem(c)
  \/ \E c \in Conns : SaveClose(c)
  \/ \E c \in Conns : SaveAppend(c)
  \/ \E c \in Conns : SaveUnlock(c)
  \/ \E c \in Conns : SaveReply(c)
  \/ \E c \in Conns, args \in PsyncArgs : PsyncStart(c, args)
  \/ \E c \in Conns : PsyncFile(c)

InitPsync ==
  ServerInit({<<>>}) /\ NoReplication /\ NoLength /\ NoMaster /\ config \in Configs /\ CodecInit({<<>>})
    /\ WireInit({<<>>}) /\ NoSnapshot

SpecPsync == InitPsync /\ [][PsyncNext]_vars

\* ------------------------------------------------------------- replica handshake
\* server.py:304, 321, 330: the requests that do not depend on the port.
ping_command ==
  <<"*", "1", "\r", "\n", "$", "4", "\r", "\n", "P", "I", "N", "G", "\r", "\n">>
replconf_capa ==
  <<"*", "3", "\r", "\n", "$", "8", "\r", "\n", "R", "E", "P", "L", "C", "O", "N", "F",
  "\r", "\n", "$", "4", "\r", "\n", "c", "a", "p", "a", "\r", "\n", "$", "6", "\r", "\n",
  "p", "s", "y", "n", "c", "2", "\r", "\n">>
psync_command ==
  <<"*", "3", "\r", "\n", "$", "5", "\r", "\n", "P", "S", "Y", "N", "C", "\r", "\n", "$",
  "1", "\r", "\n", "?", "\r", "\n", "$", "2", "\r", "\n", "-", "1", "\r", "\n">>

\* server.py:312: the request with the port of the replica.
replconf_listening_port(replica_port) ==
  <<"*", "3", "\r", "\n", "$", "8", "\r", "\n", "R", "E", "P", "L", "C", "O", "N", "F",
  "\r", "\n", "$", "1", "4", "\r", "\n", "l", "i", "s", "t", "e", "n", "i", "n", "g", "-",
  "p", "o", "r", "t", "\r", "\n", "$">>
    \o str(Len(format(replica_port))) \o <<"\r", "\n">> \o format(replica_port)
    \o <<"\r", "\n">>

\* The requests of the handshake in the order of the code (server.py:303-332).
handshake_requests(replica_port) ==
  <<ping_command, replconf_listening_port(replica_port), replconf_capa, psync_command>>

\* What the master may answer to a request: a line.
HsReplies == {<<"+", "O", "K", "\r", "\n">>, <<"-", "E", "R", "R", "\r", "\n">>}

\* server.py:443-444 and 295-297: main starts the thread on a replica; the
\* thread reads config.
HsStart ==
  /\ phase = "run"
  /\ hs_pc = "off"
  /\ dict_get(config, <<"r", "o", "l", "e">>) = Str(<<"s", "l", "a", "v", "e">>)
  /\ hs_pc' = IF int_raises(dict_get(config, <<"m", "a", "s", "t", "e", "r", "_", "p", "o", "r", "t">>).v) THEN "crashed" ELSE "connect"
  /\ UNCHANGED <<server_vars, codec_vars, wire_vars, snap_vars, conf_vars, len_vars, link_vars, psync_out,
                 hs_sent, hs_got, hs_link>>

\* server.py:300: socket.create_connection, which connects or raises.
HsConnect ==
  /\ hs_pc = "connect"
  /\ \/ hs_link' = "open" /\ hs_pc' = "send"
     \/ hs_link' = "none" /\ hs_pc' = "failed"
  /\ UNCHANGED <<server_vars, codec_vars, wire_vars, snap_vars, conf_vars, len_vars, link_vars, psync_out,
                 hs_sent, hs_got>>

\* server.py:305, 313, 322, 333: sock.sendall of the next request. It succeeds
\* on an open connection, and on one the master has closed as long as the
\* master's reset has not arrived; after a reset it raises.
HsSend ==
  /\ hs_pc = "send"
  /\ \/ /\ hs_link = "open"
        /\ hs_sent' = Append(hs_sent,
             handshake_requests(dict_get(config, <<"p", "o", "r", "t">>))[Len(hs_sent) + 1])
        /\ hs_pc' = "recv"
        /\ hs_link' = hs_link
     \/ /\ hs_link = "closed"
        /\ hs_sent' = Append(hs_sent,
             handshake_requests(dict_get(config, <<"p", "o", "r", "t">>))[Len(hs_sent) + 1])
        /\ hs_pc' = "recv"
        /\ hs_link' \in {"closed", "reset"}
     \/ /\ hs_link = "reset"
        /\ hs_sent' = hs_sent
        /\ hs_pc' = "failed"
        /\ hs_link' = "none"
  /\ UNCHANGED <<server_vars, codec_vars, wire_vars, snap_vars, conf_vars, len_vars, link_vars, psync_out,
                 hs_got>>

\* The position of the thread after a recv that returned: the next request, or
\* the end of the with block after the fourth (server.py:337-340).
after_recv(got) == IF Len(got) = 4 THEN "done" ELSE "send"

\* server.py:309, 317, 326, 337: sock.recv(1024), which returns what the master
\* has sent, or b"" once the master has closed the connection, or raises when
\* the connection was reset.
HsRecv ==
  /\ hs_pc = "recv"
  /\ \/ /\ hs_link = "open"
        /\ \E reply \in HsReplies : hs_got' = Append(hs_got, reply)
        /\ hs_pc' = after_recv(hs_got')
        /\ hs_link' = hs_link
     \/ /\ hs_link \in {"open", "closed"}
        /\ hs_got' = Append(hs_got, <<>>)
        /\ hs_pc' = after_recv(hs_got')
        /\ hs_link' = "closed"
     \/ /\ hs_link \in {"open", "reset"}
        /\ hs_got' = hs_got
        /\ hs_pc' = "failed"
        /\ hs_link' = "none"
  /\ UNCHANGED <<server_vars, codec_vars, wire_vars, snap_vars, conf_vars, len_vars, link_vars, psync_out,
                 hs_sent>>

HandshakeNext ==
  \/ StartServing
  \/ HsStart
  \/ HsConnect
  \/ HsSend
  \/ HsRecv

InitHandshake ==
  ServerInit({<<>>}) /\ NoReplication /\ NoLength /\ NoMaster /\ config \in Configs /\ CodecInit({<<>>})
    /\ WireInit({<<>>}) /\ NoSnapshot

\* A server started as a master or as a replica, and the handshake of the
\* replica with a master that answers, closes or resets the connection.
SpecHandshake == InitHandshake /\ [][HandshakeNext]_vars

\* ------------------------------------------------------------- PING, QUIT, EXIT
\* What handle_client does with a command it answers itself: the response, and
\* whether the loop ends.
Answers(kind, text, break) == [kind |-> kind, text |-> text, break |-> break]

\* handle_client with the loop going on after QUIT and EXIT.
handle_client_without_break(command) ==
  IF upper(command) = <<"P", "I", "N", "G">> THEN Answers("simple", "PONG", FALSE)
  ELSE IF upper(command) \in {<<"Q", "U", "I", "T">>, <<"E", "X", "I", "T">>}
    THEN Answers("simple", "OK", FALSE)
  ELSE Answers("error", "Unknown command", FALSE)

\* server.py:363-390: command = command_parts[0].upper(), and the branches for
\* PING, for QUIT and EXIT, and for a command that is none of the server's.
handle_client(command) ==
  IF upper(command) = <<"P", "I", "N", "G">> THEN Answers("simple", "PONG", FALSE)
  ELSE IF upper(command) \in {<<"Q", "U", "I", "T">>, <<"E", "X", "I", "T">>}
    THEN Answers("simple", "OK", TRUE)
  ELSE Answers("error", "Unknown command", FALSE)

\* The commands of this kind the clients send.
QuitWords ==
  { <<"Q", "U", "I", "T">>, <<"q", "u", "i", "t">>, <<"E", "X", "I", "T">>, <<"E", "x", "i", "t">> }
DirectCommands ==
  QuitWords \cup { <<"P", "I", "N", "G">>, <<"p", "i", "n", "g">>, <<"Q", "U", "I", "T", "S">> }

\* server.py:349-390: one turn of the loop for such a command; after the break
\* the with statement closes the connection (server.py:348).
Answer(c, command) ==
  /\ CanStart(c)
  /\ sent' = Response(c, handle_client(command).kind, handle_client(command).text)
  /\ pc' = [pc EXCEPT ![c] = IF handle_client(command).break THEN "closed" ELSE "idle"]
  /\ ncmds' = ncmds + 1
  /\ UNCHANGED <<other_vars, now, store_vars, lock_vars, local_vars, exp_vars, load_vars,
                 hist_vars>>

QuitNext ==
  \/ StartServing
  \/ \E c \in Conns, k \in RaceKeys, v \in Values : SetStart(c, k, v)
  \/ \E c \in Conns : SetChk(c)
  \/ \E c \in Conns : SetStore(c)
  \/ \E c \in Conns : SetReply(c)
  \/ \E c \in Conns, k \in RaceKeys : GetStart(c, k)
  \/ \E c \in Conns : GetChk(c)
  \/ \E c \in Conns : GetRead(c)
  \/ \E c \in Conns, command \in DirectCommands : Answer(c, command)

\* Two connections that SET and GET one key, and send PING, QUIT and EXIT.
SpecQuit == InitWith({<<>>}) /\ [][QuitNext]_vars

\* ------------------------------------------------------------- handle_client
\* server.py:349-397: one turn of the loop for a recv that returns n bytes:
\* they are parsed as one command, which is answered; an exception ends the
\* loop and closes the connection.
Recv ==
  /\ connected
  /\ \E n \in 1..Min(RecvSize, Len(inbox)) :
       LET data == bytes_decode(SubSeq(inbox, 1, n))
           command_parts == parse_redis_protocol(data)
           command == upper(command_parts.args[1])
           args == Tail(command_parts.args)
       IN /\ inbox' = SubSeq(inbox, n + 1, Len(inbox))
          /\ IF command_parts.raised # ""
               THEN connected' = FALSE /\ written' = written
             ELSE IF command_parts.none \/ command_parts.args = <<>>
               THEN connected' = TRUE
                    /\ written' = Append(written, Error("Invalid command"))
             ELSE /\ command \notin Handled
                  /\ connected' = (command \notin {<<"Q", "U", "I", "T">>, <<"E", "X", "I", "T">>})
                  /\ written' = Append(written,
                       CASE command = <<"P", "I", "N", "G">> -> Simple("PONG")
                         [] command = <<"E", "C", "H", "O">> /\ Len(args) = 1 -> Bulk(args[1])
                         [] command \in {<<"Q", "U", "I", "T">>, <<"E", "X", "I", "T">>} -> Simple("OK")
                         [] OTHER -> Error("Unknown command"))
  /\ UNCHANGED <<server_vars, codec_vars, snap_vars, conf_vars, repl_vars, len_vars, link_vars, requests>>

\* server.py:351-353: the client has closed its end, recv returns b"".
RecvEof ==
  /\ connected
  /\ inbox = <<>>
  /\ connected' = FALSE
  /\ UNCHANGED <<server_vars, codec_vars, snap_vars, conf_vars, repl_vars, len_vars, link_vars, requests, inbox, written>>

WireNext == Recv \/ RecvEof

\* One connection and the bytes on it.
InitWire ==
  ServerInit({<<>>}) /\ NoReplication /\ NoLength /\ NoMaster /\ NoArguments /\ CodecInit({<<>>}) /\ NoSnapshot
  /\ WireInit(CommandSeqs(MaxRequests) \ {<<>>})

SpecWire == InitWire /\ [][WireNext]_vars

\* ------------------------------------------------------------- a replica and its master
\* The characters of the texts of the responses.
Chars ==
  ("PONG" :> <<"P", "O", "N", "G">>) @@ ("OK" :> <<"O", "K">>) @@
  ("Invalid command" :>
     <<"I", "n", "v", "a", "l", "i", "d", " ", "c", "o", "m", "m", "a", "n", "d">>) @@
  ("Unknown command" :>
     <<"U", "n", "k", "n", "o", "w", "n", " ", "c", "o", "m", "m", "a", "n", "d">>) @@
  ("Wrong number of arguments for REPLCONF" :>
     <<"W", "r", "o", "n", "g", " ", "n", "u", "m", "b", "e", "r", " ", "o", "f", " ",
       "a", "r", "g", "u", "m", "e", "n", "t", "s", " ", "f", "o", "r", " ",
       "R", "E", "P", "L", "C", "O", "N", "F">>) @@
  ("Wrong number of arguments for PSYNC" :>
     <<"W", "r", "o", "n", "g", " ", "n", "u", "m", "b", "e", "r", " ", "o", "f", " ",
       "a", "r", "g", "u", "m", "e", "n", "t", "s", " ", "f", "o", "r", " ",
       "P", "S", "Y", "N", "C">>) @@
  ("Unsupported PSYNC arguments" :>
     <<"U", "n", "s", "u", "p", "p", "o", "r", "t", "e", "d", " ", "P", "S", "Y", "N", "C",
       " ", "a", "r", "g", "u", "m", "e", "n", "t", "s">>)

\* The bytes sendall is given for a response: b"+text\r\n" or b"-ERR text\r\n".
sendall(response) ==
  IF response.kind = "simple"
    THEN str_encode(<<"+">> \o Chars[response.val] \o <<"\r", "\n">>)
    ELSE str_encode(<<"-", "E", "R", "R", " ">> \o Chars[response.val] \o <<"\r", "\n">>)

\* server.py:236-249. args[i] of the code is args[i + 1] here.
handle_replconf_command(args) ==
  IF Len(args) # 2 THEN Error("Wrong number of arguments for REPLCONF")
  ELSE Simple("OK")

\* bytes.decode() raises UnicodeDecodeError unless the bytes are UTF-8: a byte
\* below 0x80, or a lead byte with its continuation bytes.
continuation(b, i, lo, hi) == i <= Len(b) /\ b[i] >= lo /\ b[i] <= hi
RECURSIVE decode_raises(_)
decode_raises(b) ==
  IF b = <<>> THEN FALSE
  ELSE IF b[1] < 128 THEN decode_raises(Tail(b))
  ELSE IF b[1] >= 194 /\ b[1] <= 223
    THEN ~continuation(b, 2, 128, 191) \/ decode_raises(SubSeq(b, 3, Len(b)))
  ELSE IF b[1] >= 224 /\ b[1] <= 239
    THEN \/ ~continuation(b, 2, IF b[1] = 224 THEN 160 ELSE 128,
                                IF b[1] = 237 THEN 159 ELSE 191)
         \/ ~continuation(b, 3, 128, 191)
         \/ decode_raises(SubSeq(b, 4, Len(b)))
  ELSE IF b[1] >= 240 /\ b[1] <= 244
    THEN \/ ~continuation(b, 2, IF b[1] = 240 THEN 144 ELSE 128,
                                IF b[1] = 244 THEN 143 ELSE 191)
         \/ ~continuation(b, 3, 128, 191)
         \/ ~continuation(b, 4, 128, 191)
         \/ decode_raises(SubSeq(b, 5, Len(b)))
  ELSE TRUE

\* A recv that returns fewer bytes than are pending returns this many.
ShortReads == {10}

\* The numbers of bytes recv(1024) may return when the bytes pending are there:
\* all of them up to 1024, or fewer.
recv(pending) ==
  {Min(RecvSize, Len(pending))} \cup {n \in ShortReads : n < Len(pending)}


\* The master's rdb_path: no file there, or the file a SAVE of the empty stores
\* has left.
NoFile == [exists |-> FALSE, content |-> <<>>]
MasterFiles == {NoFile, [exists |-> TRUE, content |-> write_rdb(<<>>, <<>>).bytes]}

\* The masters: started without --replicaof, with either replication id, the
\* stores empty, and the thread of the replica's connection at its recv.
Masters ==
  { [config |-> conf, data_store |-> [k \in Keys |-> Null],
     expiry_store |-> [k \in Keys |-> NoExp], rdb_file |-> f, pc |-> "recv"] :
    conf \in {main(ArgumentsOf(DefaultPort, NoReplicaof), replid) : replid \in random_id(40)},
    f \in MasterFiles }

\* The replicas: started with --replicaof "a 1", with a port or without.
Replicas == {conf \in Configs : dict_get(conf, <<"r", "o", "l", "e">>) = Str(<<"s", "l", "a", "v", "e">>)}

\* server.py:300 and 451-455: socket.create_connection connects, and the
\* master's accept starts handle_client on the connection; or it raises.
ReplicaConnect ==
  /\ hs_pc = "connect"
  /\ \/ hs_link' = "open" /\ hs_pc' = "send" /\ connected' = TRUE
     \/ hs_link' = "none" /\ hs_pc' = "failed" /\ connected' = connected
  /\ UNCHANGED <<server_vars, codec_vars, snap_vars, conf_vars, len_vars, link_vars, psync_out,
                 hs_sent, hs_got, requests, inbox, written>>

\* server.py:305, 313, 322, 333: sock.sendall of the next request. The bytes
\* are pending at the master while its handle_client runs; once the master has
\* closed the connection they are lost and a reset comes back, at once or
\* later; after a reset sendall raises.
ReplicaSend ==
  /\ hs_pc = "send"
  /\ IF hs_link = "reset"
       THEN /\ hs_pc' = "failed"
            /\ hs_link' = "none"
            /\ UNCHANGED <<hs_sent, inbox>>
       ELSE /\ hs_sent' = Append(hs_sent,
                 handshake_requests(dict_get(config, <<"p", "o", "r", "t">>))[Len(hs_sent) + 1])
            /\ hs_pc' = "recv"
            /\ IF connected
                 THEN /\ inbox' = inbox \o str_encode(hs_sent'[Len(hs_sent')])
                      /\ hs_link' = hs_link
                 ELSE /\ inbox' = inbox
                      /\ hs_link' \in {"open", "reset"}
  /\ UNCHANGED <<server_vars, codec_vars, snap_vars, conf_vars, len_vars, link_vars, psync_out,
                 hs_got, requests, written, connected>>

\* server.py:337-345: the end of the with block closes the socket, after the
\* fourth recv or on an exception.
link_after(at) == IF at \in {"done", "failed"} THEN "none" ELSE "open"

\* server.py:309, 317, 326, 337: sock.recv(1024).decode(). recv returns bytes
\* the master has sent, or b"" once the master has closed the connection and
\* nothing is pending, or raises after a reset; decode raises on bytes that
\* are not UTF-8.
ReplicaRecv ==
  /\ hs_pc = "recv"
  /\ IF hs_link = "reset"
       THEN /\ hs_pc' = "failed"
            /\ UNCHANGED <<hs_got, outbox>>
     ELSE IF outbox # <<>>
       THEN \E n \in recv(outbox) :
              /\ outbox' = SubSeq(outbox, n + 1, Len(outbox))
              /\ IF decode_raises(SubSeq(outbox, 1, n))
                   THEN hs_got' = hs_got /\ hs_pc' = "failed"
                   ELSE /\ hs_got' = Append(hs_got, SubSeq(outbox, 1, n))
                        /\ hs_pc' = after_recv(hs_got')
       ELSE /\ ~connected
            /\ hs_got' = Append(hs_got, <<>>)
            /\ hs_pc' = after_recv(hs_got')
            /\ outbox' = outbox
  /\ hs_link' = link_after(hs_pc')
  /\ UNCHANGED <<server_vars, codec_vars, wire_vars, snap_vars, conf_vars, len_vars, psync_out,
                 hs_sent, master>>

\* The commands with a handler that works on the stores, the configuration or
\* the snapshot file (server.py:370-381).
StoreCommands ==
  { <<"S", "E", "T">>, <<"G", "E", "T">>, <<"C", "O", "N", "F", "I", "G">>,
    <<"S", "A", "V", "E">>, <<"K", "E", "Y", "S">>, <<"I", "N", "F", "O">> }

\* server.py:362-390 for a command that is none of StoreCommands: the bytes of
\* its first sendall, whether the loop ends, and where the thread goes on.
Turn(out, break, pc_after) == [out |-> out, break |-> break, pc |-> pc_after]
psync_turn(sends) ==
  IF sends.kind = "error" THEN Turn(sendall(Error(sends.text)), FALSE, "recv")
  ELSE Turn(sends.bytes, FALSE, "psync_file")
dispatch(master_config, command, args) ==
  IF command = <<"P", "I", "N", "G">> THEN Turn(sendall(Simple("PONG")), FALSE, "recv")
  ELSE IF command = <<"E", "C", "H", "O">> /\ Len(args) = 1
    THEN Turn(str_encode(<<"$">> \o str(Len(args[1])) \o <<"\r", "\n">> \o args[1]
                           \o <<"\r", "\n">>), FALSE, "recv")
  ELSE IF command = <<"R", "E", "P", "L", "C", "O", "N", "F">>
    THEN Turn(sendall(handle_replconf_command(args)), FALSE, "recv")
  ELSE IF command = <<"P", "S", "Y", "N", "C">>
    THEN psync_turn(handle_psync_command(master_config, args))
  ELSE IF command \in {<<"Q", "U", "I", "T">>, <<"E", "X", "I", "T">>}
    THEN Turn(sendall(Simple("OK")), TRUE, "recv")
  ELSE Turn(sendall(Error("Unknown command")), FALSE, "recv")

\* server.py:349-397 on the master, for a recv that returns n of the pending
\* bytes: they are parsed as one command, which is answered; an exception ends
\* the loop and closes the connection. Once the replica has closed its end a
\* sendall may raise instead of sending.
MasterRecv ==
  /\ connected
  /\ master.pc = "recv"
  /\ inbox # <<>>
  /\ \E n \in recv(inbox) :
       LET data == bytes_decode(SubSeq(inbox, 1, n))
           command_parts == parse_redis_protocol(data)
           command == upper(command_parts.args[1])
           args == Tail(command_parts.args)
           turn == dispatch(master.config, command, args)
       IN /\ inbox' = SubSeq(inbox, n + 1, Len(inbox))
          /\ IF command_parts.raised # ""
               THEN connected' = FALSE /\ UNCHANGED <<written, outbox, master>>
             ELSE IF command_parts.none \/ command_parts.args = <<>>
               THEN /\ connected' = TRUE
                    /\ written' = Append(written, sendall(Error("Invalid command")))
                    /\ outbox' = outbox \o sendall(Error("Invalid command"))
                    /\ master' = master
             ELSE /\ command \notin StoreCommands
                  /\ \/ /\ connected' = ~turn.break
                        /\ written' = Append(written, turn.out)
                        /\ outbox' = outbox \o turn.out
                        /\ master' = [master EXCEPT !.pc = turn.pc]
                     \/ /\ hs_link = "none"
                        /\ connected' = FALSE
                        /\ UNCHANGED <<written, outbox, master>>
  /\ UNCHANGED <<server_vars, codec_vars, snap_vars, conf_vars, repl_vars, len_vars, requests>>

\* server.py:269-282 on the master: the file at rdb_path, if there is one, is
\* read and sent with its length before it; a sendall that raises ends the
\* loop.
MasterPsyncFile ==
  /\ connected
  /\ master.pc = "psync_file"
  /\ master' = [master EXCEPT !.pc = "recv"]
  /\ \/ /\ master.rdb_file.exists
        /\ written' = Append(written, rdb_response(master.rdb_file.content))
        /\ outbox' = outbox \o rdb_response(master.rdb_file.content)
        /\ connected' = connected
     \/ /\ ~master.rdb_file.exists
        /\ UNCHANGED <<written, outbox, connected>>
     \/ /\ master.rdb_file.exists
        /\ hs_link = "none"
        /\ connected' = FALSE
        /\ UNCHANGED <<written, outbox>>
  /\ UNCHANGED <<server_vars, codec_vars, snap_vars, conf_vars, repl_vars, len_vars, requests,
                 inbox>>

\* server.py:351-353 on the master: the replica has closed its end, recv
\* returns b"".
MasterEof ==
  /\ connected
  /\ master.pc = "recv"
  /\ inbox = <<>>
  /\ hs_link = "none"
  /\ connected' = FALSE
  /\ UNCHANGED <<server_vars, codec_vars, snap_vars, conf_vars, repl_vars, len_vars, link_vars,
                 requests, inbox, written>>

LinkNext ==
  \/ StartServing
  \/ HsStart
  \/ ReplicaConnect
  \/ ReplicaSend
  \/ ReplicaRecv
  \/ MasterRecv
  \/ MasterPsyncFile
  \/ MasterEof

InitLink ==
  /\ ServerInit({<<>>}) /\ NoReplication /\ NoLength /\ CodecInit({<<>>}) /\ NoSnapshot
  /\ config \in Replicas
  /\ master \in Masters
  /\ outbox = <<>>
  /\ requests = <<>>
  /\ inbox = <<>>
  /\ written = <<>>
  /\ connected = FALSE

\* A replica started with --replicaof and the master it connects to, with the
\* bytes on the connection between them.
SpecLink == InitLink /\ [][LinkNext]_vars

\* ------------------------------------------------------------- claims
\* The step in which handle_get_command writes its reply on connection c.
GetReplies(c) == pc[c] \in {"get_read", "get_evict_expiry"} /\ pc'[c] = "idle"

\* The value of that reply (Null for the null bulk string).
Replied == sent'.val

\* No other connection is inside a SET of key k.
NoOtherSet(c, k) == \A d \in Conns \ {c} : ~InSet(d, k)

\* C1: a GET that sampled the time T replies with a value only if the key has no
\* expiry entry or its expiry entry is greater than T at the moment of the
\* reply: a key whose expiry entry is <= T is never returned.
C1_ExpiredNeverReturned ==
  [][\A c \in Conns :
       (GetReplies(c) /\ Replied # Null) => ~Expired(key[c], current_time[c])]_vars

\* C2: once SET K v PX ttl, overlapped by no other SET of K, is acknowledged at
\* time t0 and no SET has written K since, every GET K issued at a time
\* >= t0 + ttl replies null.
C2_GetAfterTtlIsNull ==
  [][\A c \in Conns :
       ( /\ GetReplies(c)
         /\ acked[key[c]].due # NoExp
         /\ acked[key[c]].alone
         /\ current_time[c] >= acked[key[c]].due )
       => Replied = Null]_vars

\* C3: after a connection's SET K v without PX, overlapped by no other SET of K,
\* is acknowledged, the connection's next GET K replies v, provided no other SET
\* of K starts in between.
C3_ReadYourWrites ==
  [][\A c \in Conns :
       ( /\ GetReplies(c)
         /\ acked[key[c]].conn = c
         /\ acked[key[c]].due = NoExp
         /\ acked[key[c]].alone
         /\ acked[key[c]].next
         /\ NoOtherSet(c, key[c]) )
       => Replied = acked[key[c]].val]_vars

\* C4: once two concurrent SETs of K without PX, from distinct connections and
\* with the values v1 and v2, are both acknowledged, the data map holds v1 or
\* v2 for K until the next SET of K, and every GET K issued after both
\* acknowledgements replies with the value the data map holds.
C4_ConcurrentSetsLeaveOneValue ==
  [][/\ \A k \in Keys : conc'[k].n = 2 => data_store'[k] \in conc'[k].vals
     /\ \A c \in Conns :
          (GetReplies(c) /\ get_after[c] /\ conc[key[c]].n = 2)
          => (Replied \in conc[key[c]].vals /\ Replied = data_store'[key[c]])]_vars

\* The expiry entry a SET leaves when it runs alone: now_ms + ms with PX, none
\* without.
ExpiryOf(set) == IF set.px = NoPX THEN NoExp ELSE set.at + set.px

\* C5: when no SET of K is in flight, the expiry entry of K is the one that the
\* SET whose value K holds leaves: the value of one SET is never combined with
\* the expiry, or the absence of expiry, of another.
C5_ValueAndExpiryOfOneSet ==
  \A k \in Keys :
    ( /\ \A c \in Conns : ~InSet(c, k)
      /\ last_set[k] # NoSet )
    => expiry_store[k] = ExpiryOf(last_set[k])

\* A key the data map holds is live at time t: it has no expiry entry, or one
\* that is greater than t.
Live(k, t) == data_store[k] # Null /\ ~Expired(k, t)

\* C6: KEYS p replies with exactly the live keys that match p.
C6_KeysRepliesLiveMatches ==
  [][\A c \in Conns :
       (pc[c] = "keys_list" /\ pc'[c] = "idle")
       => Replied = {k \in Keys : Live(k, now) /\ fnmatch(k, pattern[c])}]_vars

\* C7: in every reachable state, every key of the expiry table is a key of the
\* data map.
C7_ExpiryKeysHaveValues ==
  \A k \in Keys : expiry_store[k] # NoExp => data_store[k] # Null

\* C8: a SET that ran with no other operation interleaved leaves the value it
\* was given, and the expiry now_ms + ms if it carried PX ms, and no expiry entry
\* if it carried no PX, whatever expiry the key had before: after any sequence
\* of SETs the key is in the expiry table iff the last SET of it carried PX.
C8_SetLeavesValueAndExpiry ==
  pc[SeqConn] = "idle" =>
    \A k \in Keys :
      last_set[k] # NoSet =>
        /\ data_store[k] = last_set[k].val
        /\ expiry_store[k] = ExpiryOf(last_set[k])
        /\ (expiry_store[k] # NoExp <=> last_set[k].px # NoPX)

\* C8 witness: a SET with PX over a key that held another value, and a SET
\* without PX, have both been acknowledged.
C8_Witness ==
  /\ pc[SeqConn] = "idle"
  /\ sent.conn = SeqConn /\ sent.kind = "simple"
  /\ \E k \in Keys :
       /\ last_set[k].px \in TTLs
       /\ expiry_store[k] = last_set[k].at + last_set[k].px
       /\ last_set[k].at > 0
  /\ \E k \in Keys : last_set[k] # NoSet /\ last_set[k].px = NoPX

\* The step in which decode is called.
DecodeCalled == calls' = calls + 1

RECURSIVE decode_all(_)
decode_all(buf) ==
  LET r == decode(buf)
      frames == IF IsFrame(r) THEN <<r.ret>> ELSE <<>>
  IN IF buf = <<>> \/ r.buffer = buf THEN frames
     ELSE frames \o decode_all(r.buffer)

MalformedHeader(buf) ==
  /\ buf # <<>>
  /\ chr[buf[1]] \in {BULK_STRING, ARRAY}
  /\ find(buf, TERMINATOR) # -1
  /\ LET text == bytes_decode(SubSeq(buf, 2, find(buf, TERMINATOR)))
     IN /\ text # <<"-", "1">>
        /\ text = <<>> \/ \E i \in 1..Len(text) : text[i] \notin DOMAIN digit

ReplyTo(cmd) ==
  IF cmd[1] = Str(<<"P", "I", "N", "G">>) THEN Simple("PONG") ELSE Bulk(cmd[2].v)

\* C13: the responses written on a connection are, in order, those to the
\* commands sent on it, one each, never more than the commands received so
\* far; once all the bytes sent have been received every command has its
\* response, however recv grouped the bytes.
C13_OneResponsePerFrame ==
  /\ Len(written) <= Len(requests)
  /\ \A i \in 1..Len(written) : written[i] = ReplyTo(requests[i])
  /\ inbox = <<>> => Len(written) = Len(requests)

\* Two values are the same; a set is its members, in any order.
SameValue(a, b) ==
  IF a.t = "set" /\ b.t = "set"
    THEN {a.v[i] : i \in 1..Len(a.v)} = {b.v[i] : i \in 1..Len(b.v)}
    ELSE a = b

\* Two dicts hold the same keys with the same values.
SameDict(d, e) ==
  /\ dict_keys(d) = dict_keys(e)
  /\ \A k \in dict_keys(d) : SameValue(dict_get(d, k), dict_get(e, k))

\* The entries of an expiry dict.
Entries(d) == {<<d[i].key, d[i].val>> : i \in 1..Len(d)}

\* The step in which parse_rdb loads the file as write_rdb left it.
LoadsWritten == rdb = "file" /\ rdb' = "parsed"

\* C14: a snapshot written from a data map and an expiry table and loaded at
\* time now into an empty keyspace gives the same data map, and an expiry table
\* of exactly the entries whose timestamp is strictly greater than now.
C14_LoadGivesDataAndLaterExpiries ==
  [][LoadsWritten =>
       /\ SameDict(rdb_data_store', snap_data)
       /\ Entries(rdb_expiry_store') = {p \in Entries(snap_expiry) : p[2] > now}]_vars

\* C15: every string, list and set value written to a snapshot is loaded back
\* under its key as the same value, whatever the size of a set.
C15_ValuesRoundTrip ==
  [][LoadsWritten =>
       \A i \in 1..Len(snap_data) :
         /\ snap_data[i].key \in dict_keys(rdb_data_store')
         /\ SameValue(dict_get(rdb_data_store', snap_data[i].key), snap_data[i].val)]_vars

\* The last 8 bytes of the file, read big-endian, are not the CRC-64 of the
\* bytes before them.
ChecksumMismatch(f) ==
  /\ Len(f) >= 8
  /\ Slice(f, -8, Len(f)) # pack_checksum(calculate_crc64(Slice(f, 0, -8)))

\* C16: loading a file whose checksum does not match fails with an error and
\* installs no key.
C16_ChecksumMismatchFailsLoad ==
  [][(rdb # "parsed" /\ rdb' = "parsed" /\ ChecksumMismatch(disk)) =>
       /\ rdb_error' # ""
       /\ rdb_data_store' = <<>>
       /\ rdb_expiry_store' = <<>>]_vars

\* C18: a server whose snapshot load failed never starts to accept
\* connections.
C18_FailedLoadNeverServes == phase = "run" => rdb_error = ""

\* The file is a body that begins with the header REDIS0011 and ends with the
\* opcode 0xFF at which parse_rdb stops, followed by exactly 8 bytes, the CRC-64
\* of the body with the most significant byte first.
WellFormed(f) ==
  /\ Len(f) >= 18
  /\ Slice(f, 0, 9) = Header
  /\ f[Len(f) - 8] = 255
  /\ parse_rdb(f, <<>>, <<>>, 0).raised = ""
  /\ parse_rdb(f, <<>>, <<>>, 0).rest = <<>>
  /\ Slice(f, -8, Len(f)) = pack_checksum(calculate_crc64(Slice(f, 0, -8)))

\* The step in which a SAVE replies +OK.
SaveReplies == \E c \in Conns : pc[c] = "save_reply" /\ pc'[c] = "idle"

\* C17: when a SAVE has replied +OK the file on disk is a body from the header
\* to the opcode 0xFF followed by its checksum, appended once, also with other
\* SAVEs issued before it or at the same time.
C17_FileWellFormedAfterSave == [][SaveReplies => WellFormed(disk')]_vars

\* The SET is one the server rejects for its arguments: fewer than two, a third
\* that is not PX, PX without a value, PX with a value that is not an integer.
RejectedForArguments(args) ==
  \/ Len(args) < 2
  \/ Len(args) > 2 /\ upper(args[3]) # <<"P", "X">>
  \/ Len(args) = 3 /\ upper(args[3]) = <<"P", "X">>
  \/ Len(args) > 3 /\ upper(args[3]) = <<"P", "X">> /\ int_raises(args[4])

\* C19: a SET rejected for its arguments is answered with an error, leaves
\* data_store and expiry_store as they were, and leaves the connection in
\* handle_client's loop, ready for its next command.
C19_RejectedSetChangesNothing ==
  [][\A c \in Conns, args \in SetArgs :
       (RejectedForArguments(args) /\ SetCommand(c, args)) =>
         /\ sent'.conn = c
         /\ sent'.kind = "error"
         /\ UNCHANGED store_vars
         /\ pc'[c] = "idle"]_vars

\* A connection whose SET was rejected for a PX value that is no integer is
\* handling its next command, the stores being as they were before.
C19_Witness ==
  \E c \in Conns :
    /\ sent = Response(c, "error", "PX value must be an integer")
    /\ pc[c] = "set_store"
    /\ data_store[<<"a">>] = Null

\* The text of a bulk string, and of the array of two of them.
BulkText(text) == <<"$">> \o str(Len(text)) \o <<"\r", "\n">> \o text \o <<"\r", "\n">>
IsBulkText(t) ==
  \E n \in 0..Len(t) :
    /\ Len(t) = Len(str(n)) + n + 5
    /\ t = BulkText(SubSeq(t, Len(str(n)) + 4, Len(str(n)) + 3 + n))
ArrayOfTwo(first, t) ==
  /\ Len(t) > 4 + Len(BulkText(first))
  /\ SubSeq(t, 1, 4 + Len(BulkText(first))) = <<"*", "2", "\r", "\n">> \o BulkText(first)
  /\ IsBulkText(SubSeq(t, 5 + Len(BulkText(first)), Len(t)))

\* The option names the configuration recognizes.
Recognized == OptionNames

\* C20: CONFIG GET p is answered with the array of p and its value when p is
\* one of the recognized option names, whatever the role, and with the error
\* Unknown configuration parameter for every other p; either way the
\* connection stays in handle_client's loop.
C20_ConfigGetReplies ==
  [][\A c \in Conns, args \in ConfigArgs :
       (Len(args) = 2 /\ args[1] = <<"G", "E", "T">> /\ ConfigGet(c, args)) =>
         /\ pc'[c] = "idle"
         /\ sent'.conn = c
         /\ IF args[2] \in Recognized
              THEN sent'.kind = "text" /\ ArrayOfTwo(args[2], sent'.val)
              ELSE sent' = Response(c, "error", "Unknown configuration parameter")]_vars

\* The server is a primary, its replication id, and the reply with it.
IsPrimary == dict_get(config, <<"r", "o", "l", "e">>) = Str(<<"m", "a", "s", "t", "e", "r">>)
OwnReplid == dict_get(config, <<"m", "a", "s", "t", "e", "r", "_", "r", "e", "p", "l", "i", "d">>)
FullResync ==
  str_encode(<<"+", "F", "U", "L", "L", "R", "E", "S", "Y", "N", "C", " ">> \o OwnReplid.v \o <<" ", "0", "\r", "\n">>)
LengthPrefixed(content) ==
  str_encode(<<"$">> \o str(Len(content)) \o <<"\r", "\n">>) \o content

\* C21: on a primary with a snapshot file on disk, a PSYNC with two arguments
\* is answered with +FULLRESYNC, the primary's replication id of 40
\* characters and 0, and next on the connection with $N, CR LF and the N bytes
\* of the file, nothing after them and nothing between the two.
C21_PsyncSendsIdThenSnapshot ==
  [][\A c \in Conns :
       /\ \A args \in PsyncArgs :
            (IsPrimary /\ rdb # "none" /\ Len(args) = 2 /\ PsyncStart(c, args)) =>
              /\ OwnReplid.t = "str"
              /\ Len(OwnReplid.v) = 40
              /\ psync_out'[c] = <<Bytes(FullResync)>>
              /\ pc'[c] = "psync_file"
       /\ (IsPrimary /\ rdb # "none" /\ PsyncFile(c)) =>
            psync_out'[c] = <<Bytes(FullResync), Bytes(LengthPrefixed(disk))>>]_vars

\* C22: the handshake sends its four requests in the order PING, REPLCONF
\* listening-port, REPLCONF capa, PSYNC; each after the first is sent only when
\* every request before it has had a reply, and none once the connection has
\* failed.
C22_HandshakeAwaitsEachReply ==
  [][hs_sent' # hs_sent =>
       /\ Len(hs_sent') <= 4
       /\ hs_sent' = SubSeq(handshake_requests(dict_get(config, <<"p", "o", "r", "t">>)), 1, Len(hs_sent) + 1)
       /\ Len(hs_got) = Len(hs_sent)
       /\ \A i \in 1..Len(hs_got) : hs_got[i] # <<>>
       /\ hs_link = "open"]_vars

\* C23: QUIT and EXIT, in any case, are answered with +OK and close the
\* connection; on a closed connection no response is written and no command
\* is taken up any more, while the other connections go on.
C23_QuitRepliesAndCloses ==
  [][\A c \in Conns :
       /\ \A command \in QuitWords :
            Answer(c, command) => sent' = Response(c, "simple", "OK") /\ pc'[c] = "closed"
       /\ pc[c] = "closed" =>
            /\ pc'[c] = "closed"
            /\ sent' = sent \/ sent'.conn # c]_vars

\* A connection has been closed by QUIT or EXIT, and the other has had the
\* value of its GET since.
C23_Witness ==
  \E c \in Conns, d \in Conns :
    /\ c # d
    /\ pc[c] = "closed"
    /\ sent = Response(d, "bulk", "v1")

\* The write of the snapshot fails, and the reply to the SAVE that failed.
SaveFails(c) == pc[c] = "save_item" /\ pc'[c] = "save_fail"
SaveFailReplies(c) == pc[c] = "save_fail" /\ pc'[c] = "idle"

\* C24: when write_rdb fails the SAVE leaves data_store and expiry_store as
\* they are and holds neither lock any more, its client is sent -ERR Failed
\* to save RDB file, and the connection is back in handle_client's loop.
C24_FailedSaveRepliesAndReleases ==
  [][\A c \in Conns :
       /\ SaveFails(c) =>
            /\ UNCHANGED store_vars
            /\ data_store_lock' # c
            /\ expiry_store_lock' # c
       /\ SaveFailReplies(c) =>
            /\ UNCHANGED store_vars
            /\ data_store_lock' # c
            /\ expiry_store_lock' # c
            /\ sent' = Response(c, "error", "Failed to save RDB file")]_vars

\* A connection whose SAVE failed has been sent the error and is back in its
\* loop, both locks are free, and the SET of the other connection that made
\* the SAVE fail has stored its value.
C24_Witness ==
  \E c \in Conns, d \in Conns :
    /\ c # d
    /\ sent = Response(c, "error", "Failed to save RDB file")
    /\ pc[c] = "idle"
    /\ pc[d] = "set_reply"
    /\ data_store_lock = Free
    /\ expiry_store_lock = Free

\* C25: a thread that takes expiry_store_lock does not hold data_store_lock:
\* where both locks are held, expiry_store_lock was taken first.
C25_ExpiryLockBeforeDataLock ==
  [][\A w \in Workers :
       expiry_store_lock # w /\ expiry_store_lock' = w => data_store_lock # w]_vars

\* A thread at the point where it waits for a lock it does not hold.
WaitsForExpiryLock(w) ==
  /\ w \in Conns
  /\ pc[w] \in {"save_lock_expiry", "get_chk", "set_install"}
WaitsForDataLock(w) ==
  \/ w \in Conns /\ pc[w] \in {"save_lock_data", "get_evict_data", "get_read", "set_store"}
  \/ w = Expirer /\ epc = "evict_data"

\* C26: no two threads each hold one of the two locks and wait for the
\* other's: a SAVE beside a GET of an expired key, or beside an eviction of
\* the expiration thread, is never stuck with it.
C26_NoDeadlock ==
  ~ \E v \in Workers, w \in Workers :
      /\ data_store_lock = v
      /\ WaitsForExpiryLock(v)
      /\ expiry_store_lock = w
      /\ WaitsForDataLock(w)

\* A SAVE holds both locks: write_rdb is running (server.py:169-178).
SaveWrites(c) == data_store_lock = c /\ expiry_store_lock = c

\* C27: while a SAVE holds both locks no step changes data_store or
\* expiry_store, and no other connection makes the test of a SET on
\* expiry_store: what write_rdb reads is the state of one instant.
C27_SaveExcludesOthers ==
  [][\A c \in Conns :
       SaveWrites(c) =>
         /\ UNCHANGED store_vars
         /\ \A d \in Conns : pc[d] = "set_chk" => pc'[d] = "set_chk"]_vars

\* C28: the sample of a pass is at most SampleSize keys of expiry_store as it
\* is when the sample is drawn; the pass removes from expiry_store only the
\* entry of the key it is at, and only one that is there and not after the
\* time the pass started at; it evicts no key whose expiry is after that time.
C28_PassEvictsOnlyExpiredSample ==
  [][/\ ExpSnapshot =>
          /\ keys_to_check' \subseteq stored(expiry_store, NoExp)
          /\ Cardinality(keys_to_check') <= SampleSize
     /\ ExpEvictData =>
          ~ (expiry_store[exp_key] # NoExp /\ expiry_store[exp_key] > exp_time)
     /\ ExpEvictExpiry =>
          /\ \A k \in DOMAIN expiry_store :
               expiry_store'[k] # expiry_store[k] =>
                 /\ k = exp_key
                 /\ expiry_store[k] # NoExp
                 /\ expiry_store[k] <= exp_time
                 /\ expiry_store_lock = Expirer
          /\ ~ (expiry_store[exp_key] # NoExp /\ expiry_store[exp_key] > exp_time)]_vars

\* The table held more keys than a sample takes, the sample was of SampleSize
\* keys, and the pass, still at work, has evicted the one that had expired.
C28_Witness ==
  /\ Cardinality(DOMAIN expiry_store) > SampleSize
  /\ Cardinality(stored(expiry_store, NoExp)) = SampleSize
  /\ expiry_store[<<"a">>] = NoExp
  /\ data_store[<<"a">>] = Null
  /\ epc = "loop"
  /\ Cardinality(keys_to_check) = SampleSize - 1

\* A step of the GET of connection c after it has taken its key.
GetStep(c) == GetChk(c) \/ GetEvictData(c) \/ GetEvictExpiry(c) \/ GetRead(c)

\* C29: a GET changes data_store and expiry_store for no key but its own, and
\* for its own only when it finds the key expired: then the key is in neither
\* store when the null reply is sent. A GET that finds it live or absent
\* changes nothing.
C29_GetOnlyEvictsItsExpiredKey ==
  [][\A c \in Conns :
       /\ (\E k \in Keys : GetStart(c, k)) => UNCHANGED store_vars
       /\ GetStep(c) =>
            \A k \in Keys \ {key[c]} :
              data_store'[k] = data_store[k] /\ expiry_store'[k] = expiry_store[k]
       /\ GetEvictExpiry(c) =>
            /\ sent' = Response(c, "bulk", Null)
            /\ data_store'[key[c]] = Null
            /\ expiry_store'[key[c]] = NoExp
       /\ GetChk(c) /\ pc'[c] = "get_read" => UNCHANGED store_vars
       /\ GetRead(c) => UNCHANGED store_vars]_vars

\* A key the load has left with a value and without expiry: in SpecLoad every
\* record carries an expiry, so the expiry of its record had passed.
LoadedPastExpiry(k) ==
  /\ phase = "run"
  /\ data_store[k] # Null
  /\ expiry_store[k] = NoExp

\* C30: the load of a record whose expiry is before the time of the load
\* stores the value and no expiry; from then on the key keeps its value and
\* stays without expiry as the clock runs, and every GET of it replies the value.
C30_PastExpiryLoadsWithoutExpiry ==
  [][/\ LoadExpiry /\ Head(file).expire # NoExp /\ Head(file).expire < now =>
          /\ data_store'[Head(file).key] = Head(file).value
          /\ expiry_store'[Head(file).key] = NoExp
     /\ \A k \in Keys :
          LoadedPastExpiry(k) =>
            /\ data_store'[k] = data_store[k]
            /\ expiry_store'[k] = NoExp
            /\ \A c \in Conns :
                 key[c] = k /\ pc[c] # "idle" /\ pc'[c] = "idle" =>
                   sent' = Response(c, "bulk", data_store[k])]_vars

\* The record of <<"a">> was loaded after its expiry, the clock has run to its
\* end, and a GET has just replied the value.
C30_Witness ==
  /\ LoadedPastExpiry(<<"a">>)
  /\ now = MaxTime
  /\ \E c \in Conns : sent = Response(c, "bulk", "v1") /\ current_time[c] = MaxTime

\* The bytes the writer gave a length: one byte, two with the top bits 01, or
\* 0x80 and the four bytes of the length, the most significant first.
FormOfLength(L, b) ==
  IF L <= 63 THEN b = <<L>>
  ELSE IF L <= 16383
    THEN /\ Len(b) = 2
         /\ b[1] \div 64 = 1
         /\ (b[1] % 64) * 256 + b[2] = L
    ELSE /\ Len(b) = 5
         /\ b[1] = 128
         /\ \A i \in 2..5 : b[i] \in 0..255
         /\ ((b[2] * 256 + b[3]) * 256 + b[4]) * 256 + b[5] = L

\* C31: a length is written in the form of its range, read_length returns it
\* from those bytes and leaves what follows them; a first byte with the top
\* bits 11 makes read_length raise an error.
C31_LengthRoundTrips ==
  [][/\ \A L \in Lengths, rest \in Following :
          WriteLength(L, rest) =>
            /\ FormOfLength(L, SubSeq(size_bytes', 1, Len(size_bytes') - Len(rest)))
            /\ SubSeq(size_bytes', Len(size_bytes') - Len(rest) + 1, Len(size_bytes')) = rest
     /\ ReadLength /\ size_bytes[1] \notin SpecialBytes =>
          /\ size_read'.raised = ""
          /\ size_read'.v = size_in
          /\ size_read'.rest \in Following
          /\ FormOfLength(size_in, SubSeq(size_bytes, 1, Len(size_bytes) - Len(size_read'.rest)))
          /\ SubSeq(size_bytes, Len(size_bytes) - Len(size_read'.rest) + 1, Len(size_bytes))
               = size_read'.rest
     /\ ReadLength /\ size_bytes[1] \in SpecialBytes =>
          size_read'.raised = "ValueError"]_vars

\* The largest length has been written in five bytes and read back, the bytes
\* that follow it left.
C31_Witness ==
  /\ size_in = 2147483647
  /\ size_bytes = <<128, 127, 255, 255, 255, 255, 1>>
  /\ size_read = Got(2147483647, <<255, 1>>)

\* The replies the handshake is to get from the master m, as bytes: PONG, OK,
\* OK and FULLRESYNC with the master's replication id and offset 0.
HandshakeReplies(m) ==
  << str_encode(<<"+", "P", "O", "N", "G", "\r", "\n">>),
     str_encode(<<"+", "O", "K", "\r", "\n">>),
     str_encode(<<"+", "O", "K", "\r", "\n">>),
     str_encode(<<"+", "F", "U", "L", "L", "R", "E", "S", "Y", "N", "C", " ">>
       \o dict_get(m.config, <<"m", "a", "s", "t", "e", "r", "_", "r", "e", "p", "l", "i", "d">>).v
       \o <<" ", "0", "\r", "\n">>) >>

\* The bytes the master takes from the connection in this step.
Taken == SubSeq(inbox, 1, Len(inbox) - Len(inbox'))

\* C32: in a handshake of a replica with a master that runs handle_client,
\* whenever the master takes bytes from the connection they are the next
\* request of the handshake, whole and alone; it answers them with the reply
\* of that request (PONG, OK, OK, FULLRESYNC <replid> 0, in this order), after
\* the last of which only the snapshot file may follow; and the master's data
\* map, expiry table and configuration stay as they were.
C32_HandshakeRequestsAnswered ==
  [][/\ master'.data_store = master.data_store
     /\ master'.expiry_store = master.expiry_store
     /\ master'.config = master.config
     /\ Len(inbox') < Len(inbox) =>
          /\ Len(written) < 4
          /\ Taken = str_encode(hs_sent[Len(written) + 1])
          /\ written' = Append(written, HandshakeReplies(master)[Len(written) + 1])
     /\ written' # written /\ inbox' = inbox =>
          /\ Len(written) = 4
          /\ master.rdb_file.exists
          /\ written' = Append(written, rdb_response(master.rdb_file.content))]_vars

====
